---- MODULE Spec2Model ----
(***************************************************************************)
(* RegulAI: the two ReAct agent loops of the repository.                   *)
(*   - the functional agent   (src/agent/main.py, @entrypoint `agent`)     *)
(*   - the StateGraph agent   (src/regulai/agent.py + src/regulai/graph.py)*)
(* A behaviour runs one of the two implementations (`impl`), a caller      *)
(* issuing successive turns on thread ids; the model's responses, the      *)
(* outcome of every remote tool call and the completion order of the       *)
(* parallel tool tasks are chosen nondeterministically.                    *)
(* SpecConcurrent runs two callers at once; SpecMCP runs single tool       *)
(* invocations through the two MCP tool clients (src/regulai/tools.py,     *)
(* src/agent/tools.py) for every input and every outcome of the request.   *)
(* SpecLive adds fairness to the loops' own steps.  SpecLauncher runs the  *)
(* launcher (src/start.py) with children that may die and signals that may *)
(* arrive at any point; SpecStream feeds process_streaming_events          *)
(* (src/streamlit_app.py) with the events of graph turns and of plain      *)
(* generators.                                                             *)
(***************************************************************************)
EXTENDS Integers, Sequences, FiniteSets, Bags, TLC

VARIABLES
    impl,            \* "func" or "graph": the agent implementation under run
    active,          \* the callers that issue turns
    pc,              \* per caller: idle / model / tools / done / failed
    thread,          \* per caller: thread_id of the current turn
    messages,        \* per caller: `messages` local (func) / state["messages"] (graph)
    llm_response,    \* per caller: last model response of the turn
    futures,         \* per caller: tool_result_futures of the functional agent
    result,          \* per caller: message handed back to the caller at DONE
    error,           \* per caller: what aborted the turn ("" when nothing did)
    modelInputs,     \* per caller: the message lists passed to the model this turn
    toolInvocations, \* per caller: bag of tool.invoke(args) calls made this turn
    trace,           \* per caller: messages of the turn in the order they arose
    toolReturns,     \* per caller: what the remote call returned to each tool
                     \* call of the last assistant message (NotCalled if none did)
    prevSaved,       \* per caller: what the store held for the thread at turn start
    histAtStart,     \* per caller: transcripts of the thread's completed turns at turn start
    store,           \* per thread: checkpointer content (saved value / graph state)
    history,         \* per thread: transcripts of the completed turns, in order
    config,          \* the object get_config() returns (graph agent)
    turns,           \* number of turns started
    requests,        \* number of tool requests the model has issued
    calls,           \* number of model calls made
    mcp_client,      \* tool invocation: the tool client in use (regulai / agent)
    mcp_pc,          \* tool invocation: idle / awaiting / returned / raised
    tool_input,      \* tool invocation: the tool and the input of tool.invoke
    client_calls,    \* tool invocation: calls of call_tool / _make_mcp_request
    http_requests,   \* tool invocation: the HTTP requests posted
    http_outcome,    \* tool invocation: how client.post ended
    client_return,   \* tool invocation: what the tool client handed back
    tool_result,     \* tool invocation: what tool.invoke ended in
    launcher_pc,     \* launcher: the statement of run() reached
    mcp_process,     \* launcher: self.mcp_process (None / running / exited)
    streamlit_process, \* launcher: self.streamlit_process
    steps,           \* launcher: the steps of run() executed, with their result
    attempt,         \* launcher: attempts made by wait_for_mcp_health
    signals,         \* launcher: terminate()/kill() calls made on the children
    cleanups,        \* launcher: number of cleanup() calls made
    exit_code,       \* launcher: the value run() returns
    stream_generator, \* streaming: the generator handed to process_streaming_events
    stream_pc,       \* streaming: idle / streaming / ended / propagated
    consumed,        \* streaming: number of source events consumed
    active_statuses, \* streaming: ids in the active_statuses dict
    created,         \* streaming: st.status indicators created, by tool call id
    completed,       \* streaming: indicators marked complete, by tool call id
    last_content,    \* streaming: last_content local
    yielded,         \* streaming: the strings the generator has yielded
    caught           \* streaming: the exception caught by the generator ("" if none)

agentVars == << impl, active, pc, thread, messages, llm_response, futures, result,
                error, modelInputs, toolInvocations, trace, toolReturns, prevSaved,
                histAtStart, store, history, config, turns, requests, calls >>

mcpVars == << mcp_client, mcp_pc, tool_input, client_calls, http_requests,
              http_outcome, client_return, tool_result >>

launcherVars == << launcher_pc, mcp_process, streamlit_process, steps, attempt,
                   signals, cleanups, exit_code >>

streamVars == << stream_generator, stream_pc, consumed, active_statuses, created,
                 completed, last_content, yielded, caught >>

vars == << agentVars, mcpVars, launcherVars, streamVars >>

(***************************************************************************)
(* Bounds                                                                  *)
(***************************************************************************)
MaxTurns == 2        \* turns started in one behaviour
MaxModelCalls == 3   \* model calls made in one behaviour
MaxRequests == 2     \* tool requests issued in one behaviour (so at most
                     \* that many in one assistant message)

Callers == {1, 2}
Threads == {"A", "B"}
Impls == {"func", "graph"}

(***************************************************************************)
(* Messages (langchain_core.messages)                                      *)
(***************************************************************************)
Absent == "<absent>"
AbsentInt == 0 - 1

NoArgs ==
    [query |-> Absent, max_results |-> AbsentInt, article_id |-> Absent,
     code_name |-> Absent, section |-> Absent]

NoMsg ==
    [type |-> "none", id |-> 0, content |-> "", tool_calls |-> << >>,
     tool_call_id |-> ""]

HumanMessage(text) ==
    [type |-> "human", id |-> 0, content |-> text, tool_calls |-> << >>,
     tool_call_id |-> ""]

AIMessage(text, tcs) ==
    [type |-> "ai", id |-> 0, content |-> text, tool_calls |-> tcs,
     tool_call_id |-> ""]

ToolMessage(text, tcid) ==
    [type |-> "tool", id |-> 0, content |-> text, tool_calls |-> << >>,
     tool_call_id |-> tcid]

\* A message list with the ids add_messages assigned removed.
Strip(msgs) == [i \in 1..Len(msgs) |-> [msgs[i] EXCEPT !.id = 0]]

(***************************************************************************)
(* add_messages (langgraph.graph.message), as used by the functional       *)
(* agent: messages without an id get a fresh one, a message of `right`     *)
(* whose id is already in `left` replaces that message in place, any other *)
(* message is appended.                                                    *)
(***************************************************************************)
MaxId(msgs) ==
    LET ids == {msgs[i].id : i \in 1..Len(msgs)} \cup {0}
    IN  CHOOSE m \in ids : \A k \in ids : k <= m

RECURSIVE WithIds(_, _)
WithIds(msgs, base) ==
    IF msgs = << >> THEN << >>
    ELSE LET m == Head(msgs)
         IN  IF m.id = 0
             THEN << [m EXCEPT !.id = base + 1] >> \o WithIds(Tail(msgs), base + 1)
             ELSE << m >> \o WithIds(Tail(msgs), base)

RECURSIVE Merge(_, _)
Merge(left, right) ==
    IF right = << >> THEN left
    ELSE LET m   == Head(right)
             hit == {i \in 1..Len(left) : left[i].id = m.id}
         IN  IF hit # {}
             THEN Merge([left EXCEPT ![CHOOSE i \in hit : TRUE] = m], Tail(right))
             ELSE Merge(Append(left, m), Tail(right))

\* Faulty variants of add_messages: the earlier messages are dropped / the
\* new messages are put in front.
add_messages_dropping_left(left, right) == WithIds(right, 0)
add_messages_in_front(left, right) == WithIds(right \o left, 0)

add_messages(left, right) ==
    LET base == IF MaxId(left) >= MaxId(right) THEN MaxId(left) ELSE MaxId(right)
        l    == WithIds(left, base)
        r    == WithIds(right, base + Len(left))
    IN  Merge(l, r)

(***************************************************************************)
(* The `messages` channel of the StateGraph.  AgentState declares          *)
(* `messages: List[BaseMessage]` with no reducer annotation, so the        *)
(* channel keeps the last value written: a node's (or the input's)         *)
(* `messages` replaces the list held before.                               *)
(***************************************************************************)
ChannelUpdate(old, update) == update

(***************************************************************************)
(* Tools (get_available_tools) and their argument schemas                  *)
(***************************************************************************)
ToolNames == {"search_legifrance", "get_article", "browse_code"}

\* SearchParams / ArticleParams / BrowseCodeParams: the required field.
RequiredField(name) ==
    CASE name = "search_legifrance" -> "query"
      [] name = "get_article"       -> "article_id"
      [] name = "browse_code"       -> "code_name"

ValidArgs(name, args) == args[RequiredField(name)] # Absent

\* What the remote call of a tool body hands back: a result text, or one of
\* the error strings of the MCP client (HTTP non-200, connection failure).
HttpErrorText == "Erreur HTTP 500: Internal Server Error"
ConnErrorText == "Erreur de connexion au serveur MCP (http://localhost:8000): refused"
ToolOutputs == {"Article L3141-1 du Code du travail", HttpErrorText, ConnErrorText}
ErrorOutputs == {HttpErrorText, ConnErrorText}

\* tool.invoke(args): schema validation, then the tool body (the remote call,
\* whose text is `out`).
ToolInvoke(name, args, out) ==
    IF ValidArgs(name, args)
    THEN [raised |-> FALSE, value |-> out]
    ELSE [raised |-> TRUE, value |-> "ValidationError: " \o RequiredField(name) \o " Field required"]

\* The tool requests a model response may carry.
SearchArgs == [NoArgs EXCEPT !.query = "conges payes", !.max_results = 3]
RequestKinds ==
    { [name |-> "search_legifrance", args |-> SearchArgs],
      [name |-> "search_legifrance", args |-> NoArgs],
      [name |-> "consult_jorf", args |-> NoArgs] }

\* Whether tool.invoke(args) of this tool call reaches the remote call.
Reaches(tc) == tc.name \in ToolNames /\ ValidArgs(tc.name, tc.args)
NotCalled == "<not called>"

ToolCallId(callNo, i) == "t" \o ToString(callNo) \o "_" \o ToString(i)

ToolCallSeqs(callNo) ==
    { [i \in 1..k |-> [id |-> ToolCallId(callNo, i), name |-> f[i].name, args |-> f[i].args]] :
        k \in 0..MaxRequests, f \in [1..MaxRequests -> RequestKinds] }

Invocation(tc) == [name |-> tc.name, args |-> tc.args]

(***************************************************************************)
(* Configuration read by the graph agent's model factory                  *)
(***************************************************************************)
\* RegulAIConfig declares google_api_key and no openai_api_key attribute; a
\* substituted configuration (tests) may expose any attribute.  max_iterations
\* is a declared field (default 20, 1..100 allowed).
Configs ==
    { [class |-> "RegulAIConfig", attrs |-> {"google_api_key"}, set |-> {"google_api_key"},
       max_iterations |-> 20],
      [class |-> "RegulAIConfig", attrs |-> {"google_api_key"}, set |-> {},
       max_iterations |-> 20],
      [class |-> "Substitute", attrs |-> {"google_api_key", "openai_api_key"},
       set |-> {"openai_api_key"}, max_iterations |-> 1] }

get_configured_model(cfg) ==
    IF "openai_api_key" \notin cfg.attrs THEN "AttributeError"
    ELSE IF "openai_api_key" \notin cfg.set THEN "ValueError"
    ELSE "model"


(***************************************************************************)
(* JSON values as response.json() yields them, and Python's str() of them. *)
(* A value is [kind, s, n, items]; the items of a list are values, the     *)
(* items of a dict are [key, val] pairs in insertion order.                *)
(***************************************************************************)
JStr(text) == [kind |-> "str", s |-> text, n |-> 0, items |-> << >>]
JInt(i) == [kind |-> "int", s |-> "", n |-> i, items |-> << >>]
JNull == [kind |-> "null", s |-> "", n |-> 0, items |-> << >>]
JList(vals) == [kind |-> "list", s |-> "", n |-> 0, items |-> vals]
JDict(pairs) == [kind |-> "dict", s |-> "", n |-> 0, items |-> pairs]
KV(k, v) == [key |-> k, val |-> v]

IsDict(v) == v.kind = "dict"
IsList(v) == v.kind = "list"
HasKey(d, k) == \E i \in 1..Len(d.items) : d.items[i].key = k
Get(d, k) == d.items[CHOOSE i \in 1..Len(d.items) : d.items[i].key = k].val

\* repr(v) and str(v): str of a string is the string, of anything else its repr.
RECURSIVE PyRepr(_)
RECURSIVE ReprItems(_, _)
ReprItems(kind, items) ==
    IF items = << >> THEN ""
    ELSE LET one == IF kind = "dict"
                    THEN "'" \o Head(items).key \o "': " \o PyRepr(Head(items).val)
                    ELSE PyRepr(Head(items))
         IN  IF Len(items) = 1 THEN one
             ELSE one \o ", " \o ReprItems(kind, Tail(items))

PyRepr(v) ==
    CASE v.kind = "str"  -> "'" \o v.s \o "'"
      [] v.kind = "int"  -> ToString(v.n)
      [] v.kind = "null" -> "None"
      [] v.kind = "list" -> "[" \o ReprItems("list", v.items) \o "]"
      [] v.kind = "dict" -> "{" \o ReprItems("dict", v.items) \o "}"

PyStr(v) == IF v.kind = "str" THEN v.s ELSE PyRepr(v)

(***************************************************************************)
(* The two MCP tool clients: MCPClient (src/regulai/tools.py) and          *)
(* _make_mcp_request (src/agent/tools.py)                                  *)
(***************************************************************************)
MCP_SERVER_URL == "http://localhost:8000"
mcp_server_url == "http://127.0.0.1:8000/mcp/"
DefaultMaxResults == 10

Clients == {"regulai", "agent"}
ServerUrl(client) == IF client = "regulai" THEN mcp_server_url ELSE MCP_SERVER_URL

\* `"result" in result` raises TypeError when the parsed body is a number or
\* null; on a list it is a membership test.
InRaises(v) == v.kind \in {"int", "null"}
In(k, v) ==
    IF IsDict(v) THEN HasKey(v, k)
    ELSE \E i \in 1..Len(v.items) : v.items[i] = JStr(k)

\* The TypeError the parsing of a parsed body `v` that is not a dict runs
\* into ("" when it runs into none): at `"result" in v`, or at v["result"]
\* for a list that holds the string "result".
ParseTypeError(v) ==
    IF InRaises(v) THEN "argument of type '" \o v.kind \o "' is not iterable"
    ELSE IF IsList(v) /\ In("result", v)
         THEN "list indices must be integers or slices, not str"
         ELSE ""

\* Faulty variant of _parse_mcp_response: a non-empty content list whose first
\* element has no `text` is stringified whole.
_parse_mcp_response_whole_list(res) ==
    IF In("result", res)
    THEN LET content == Get(res, "result")
         IN  IF IsDict(content) /\ HasKey(content, "content")
             THEN LET content_data == Get(content, "content")
                  IN  IF IsList(content_data) /\ Len(content_data.items) > 0
                      THEN LET first_item == content_data.items[1]
                           IN  IF IsDict(first_item) /\ HasKey(first_item, "text")
                               THEN PyStr(Get(first_item, "text"))
                               ELSE PyStr(content_data)
                      ELSE PyStr(content_data)
             ELSE PyStr(content)
    ELSE "Reponse inattendue du serveur MCP: " \o PyStr(res)

\* Faulty variant of _parse_mcp_response: a result without `content` is given
\* by its repr.
_parse_mcp_response_repr(res) ==
    IF In("result", res)
    THEN LET content == Get(res, "result")
         IN  IF IsDict(content) /\ HasKey(content, "content")
             THEN LET content_data == Get(content, "content")
                  IN  IF IsList(content_data) /\ Len(content_data.items) > 0
                      THEN LET first_item == content_data.items[1]
                           IN  IF IsDict(first_item) /\ HasKey(first_item, "text")
                               THEN PyStr(Get(first_item, "text"))
                               ELSE PyStr(first_item)
                      ELSE PyStr(content_data)
             ELSE PyRepr(content)
    ELSE "Reponse inattendue du serveur MCP: " \o PyStr(res)

\* MCPClient._parse_mcp_response(result); `res` is its `result` argument.
_parse_mcp_response(res) ==
    IF In("result", res)
    THEN LET content == Get(res, "result")
         IN  IF IsDict(content) /\ HasKey(content, "content")
             THEN LET content_data == Get(content, "content")
                  IN  IF IsList(content_data) /\ Len(content_data.items) > 0
                      THEN LET first_item == content_data.items[1]
                           IN  IF IsDict(first_item) /\ HasKey(first_item, "text")
                               THEN PyStr(Get(first_item, "text"))
                               ELSE PyStr(first_item)
                      ELSE PyStr(content_data)
             ELSE PyStr(content)
    ELSE "Reponse inattendue du serveur MCP: " \o PyStr(res)

\* MCPClient._handle_error_response(response)
_handle_error_response(response) ==
    "Erreur HTTP " \o ToString(response.status_code) \o
        (IF response.parsable THEN ": " \o PyStr(response.json)
         ELSE ": " \o response.text)

\* What the body of the `try` of call_tool / _make_mcp_request ends in once
\* client.post has ended in `outcome` (a response, or an httpx.RequestError:
\* connection failure, timeout): a returned string (exc = ""), or an exception
\* with its message.
Returned(text) == [exc |-> "", value |-> text]
Raised(class, text) == [exc |-> class, value |-> text]

call_tool_try(tool_name, outcome) ==
    IF outcome.kind = "RequestError" THEN Raised("RequestError", outcome.text)
    ELSE IF outcome.status_code = 200
         THEN IF ~outcome.parsable
              THEN Raised("JSONDecodeError", "Expecting value: line 1 column 1 (char 0)")
              ELSE IF ParseTypeError(outcome.json) # ""
                   THEN Raised("TypeError", ParseTypeError(outcome.json))
                   ELSE Returned(_parse_mcp_response(outcome.json))
         ELSE Returned(_handle_error_response(outcome))

\* Faulty variant of MCPClient.call_tool: the catch-all `except Exception` is
\* missing, only httpx.RequestError is handled.
call_tool_without_catch_all(server_url, tool_name, outcome) ==
    LET r == call_tool_try(tool_name, outcome)
    IN  IF r.exc = "RequestError"
        THEN [raised |-> FALSE,
              value |-> "Erreur de connexion au serveur MCP (" \o server_url \o "): " \o r.value]
        ELSE IF r.exc # ""
             THEN [raised |-> TRUE, value |-> r.exc \o ": " \o r.value]
             ELSE [raised |-> FALSE, value |-> r.value]

\* MCPClient.call_tool(tool_name, tool_args): the try block and its two
\* handlers.
MCPClient_call_tool(server_url, tool_name, outcome) ==
    LET r == call_tool_try(tool_name, outcome)
    IN  IF r.exc = "RequestError"
        THEN [raised |-> FALSE,
              value |-> "Erreur de connexion au serveur MCP (" \o server_url \o "): " \o r.value]
        ELSE IF r.exc # ""
             THEN [raised |-> FALSE,
                   value |-> "Erreur lors de l'appel de l'outil " \o tool_name \o ": " \o r.value]
             ELSE [raised |-> FALSE, value |-> r.value]

\* _make_mcp_request(tool_name, tool_args) of src/agent/tools.py: the same
\* steps written inline.
_make_mcp_request_try(tool_name, outcome) ==
    IF outcome.kind = "RequestError" THEN Raised("RequestError", outcome.text)
    ELSE IF outcome.status_code = 200
         THEN IF ~outcome.parsable
              THEN Raised("JSONDecodeError", "Expecting value: line 1 column 1 (char 0)")
              ELSE LET res == outcome.json
                   IN  IF ParseTypeError(res) # ""
                       THEN Raised("TypeError", ParseTypeError(res))
                       ELSE IF In("result", res)
                            THEN LET content == Get(res, "result")
                                 IN  IF IsDict(content) /\ HasKey(content, "content")
                                     THEN LET content_data == Get(content, "content")
                                          IN  IF IsList(content_data) /\ Len(content_data.items) > 0
                                              THEN LET first_item == content_data.items[1]
                                                   IN  IF IsDict(first_item) /\ HasKey(first_item, "text")
                                                       THEN Returned(PyStr(Get(first_item, "text")))
                                                       ELSE Returned(PyStr(first_item))
                                              ELSE Returned(PyStr(content_data))
                                     ELSE Returned(PyStr(content))
                            ELSE Returned("Reponse inattendue du serveur MCP: " \o PyStr(res))
         ELSE Returned("Erreur HTTP " \o ToString(outcome.status_code) \o
                           (IF outcome.parsable THEN ": " \o PyStr(outcome.json)
                            ELSE ": " \o outcome.text))

\* Faulty variant of _make_mcp_request: the text of an HTTP error carries the
\* status code only.
_make_mcp_request_status_only(tool_name, outcome) ==
    LET r == _make_mcp_request_try(tool_name, outcome)
    IN  IF r.exc = "RequestError"
        THEN [raised |-> FALSE,
              value |-> "Erreur de connexion au serveur MCP (" \o MCP_SERVER_URL \o "): " \o r.value]
        ELSE IF r.exc # ""
             THEN [raised |-> FALSE,
                   value |-> "Erreur lors de l'appel de l'outil " \o tool_name \o ": " \o r.value]
             ELSE IF outcome.status_code # 200
                  THEN [raised |-> FALSE,
                        value |-> "Erreur HTTP " \o ToString(outcome.status_code)]
                  ELSE [raised |-> FALSE, value |-> r.value]

\* The except clauses of _make_mcp_request.
_make_mcp_request(tool_name, outcome) ==
    LET r == _make_mcp_request_try(tool_name, outcome)
    IN  IF r.exc = "RequestError"
        THEN [raised |-> FALSE,
              value |-> "Erreur de connexion au serveur MCP (" \o MCP_SERVER_URL \o "): " \o r.value]
        ELSE IF r.exc # ""
             THEN [raised |-> FALSE,
                   value |-> "Erreur lors de l'appel de l'outil " \o tool_name \o ": " \o r.value]
             ELSE [raised |-> FALSE, value |-> r.value]

(***************************************************************************)
(* One tool invocation through a tool client: tool.invoke(input), the      *)
(* tool body, the HTTP request and what comes back.                        *)
(***************************************************************************)
PyNone == "None"

\* The tool bodies: the call they make on the tool client.
search_legifrance(query, max_results) ==
    [tool_name |-> "search_legifrance",
     tool_args |-> [query |-> query, max_results |-> max_results]]

get_article(article_id) ==
    [tool_name |-> "get_article", tool_args |-> [article_id |-> article_id]]

browse_code(code_name, section) ==
    [tool_name |-> "browse_code",
     tool_args |-> [code_name |-> code_name, section |-> section]]

\* Faulty variant of ToolBody: search_legifrance always asks for the default
\* number of results.
ToolBody_default_results(name, args) ==
    CASE name = "search_legifrance" -> search_legifrance(args.query, DefaultMaxResults)
      [] name = "get_article" -> get_article(args.article_id)
      [] name = "browse_code" ->
            browse_code(args.code_name,
                        IF args.section = Absent THEN PyNone ELSE args.section)

\* The tool body run on a validated input: an argument the input leaves out
\* takes its default.
ToolBody(name, args) ==
    CASE name = "search_legifrance" ->
            search_legifrance(args.query,
                              IF args.max_results = AbsentInt THEN DefaultMaxResults
                              ELSE args.max_results)
      [] name = "get_article" -> get_article(args.article_id)
      [] name = "browse_code" ->
            browse_code(args.code_name,
                        IF args.section = Absent THEN PyNone ELSE args.section)

\* Faulty variant of Validates: the input is not validated.
Validates_anything(name, args) == TRUE

\* tool.invoke(input), first step: the input against the tool's args_schema.
Validates(name, args) == ValidArgs(name, args)

\* The inputs a tool is invoked with.
ToolInputs ==
    { [name |-> "search_legifrance", args |-> [NoArgs EXCEPT !.query = q, !.max_results = n]] :
        q \in {Absent, "conges payes"}, n \in {AbsentInt, 3} }
    \cup
    { [name |-> "get_article", args |-> [NoArgs EXCEPT !.article_id = a]] :
        a \in {Absent, "L3141-1"} }
    \cup
    { [name |-> "browse_code", args |-> [NoArgs EXCEPT !.code_name = k, !.section = x]] :
        k \in {Absent, "Code du travail"}, x \in {Absent, "L3141"} }

NoInput == [name |-> "", args |-> NoArgs]

\* Parsed bodies of a 200 response.  The `text` of a content item is a string
\* (MCP TextContent).
TextItem(text) == JDict(<< KV("type", JStr("text")), KV("text", JStr(text)) >>)
ImageItem == JDict(<< KV("type", JStr("image")), KV("data", JStr("aGk=")) >>)
ResultOf(v) == JDict(<< KV("result", v) >>)
ContentOf(v) == ResultOf(JDict(<< KV("content", v) >>))

Contents ==
    { JList(<< TextItem("Article L3141-1") >>),
      JList(<< TextItem("Article L3141-1"), TextItem("Article L3141-2") >>),
      JList(<< ImageItem >>),
      JList(<< ImageItem, TextItem("Article L3141-1") >>),
      JList(<< JStr("texte brut") >>),
      JList(<< >>),
      JStr("texte brut"),
      JInt(3),
      JNull,
      JDict(<< KV("text", JStr("Article L3141-1")) >>) }

Envelopes ==
    { ContentOf(v) : v \in Contents }
    \cup
    { ResultOf(JStr("Reponse simple")),
      ResultOf(JInt(42)),
      ResultOf(JList(<< JStr("a"), JStr("b") >>)),
      ResultOf(JDict(<< KV("status", JStr("ok")) >>)),
      JDict(<< KV("error", JDict(<< KV("code", JInt(404)) >>)) >>),
      JList(<< JStr("result") >>),
      JList(<< >>),
      JInt(5) }

\* How client.post(...) ends.
Response(status, parsable, json, text) ==
    [kind |-> "response", status_code |-> status, parsable |-> parsable,
     json |-> json, text |-> text]
RequestError(text) ==
    [kind |-> "RequestError", status_code |-> 0, parsable |-> FALSE,
     json |-> JNull, text |-> text]
NoOutcome == [kind |-> "none", status_code |-> 0, parsable |-> FALSE,
              json |-> JNull, text |-> ""]

HttpOutcomes ==
    { Response(200, TRUE, e, "") : e \in Envelopes }
    \cup
    { Response(200, FALSE, JNull, "<html>502</html>"),
      Response(500, FALSE, JNull, "Internal Server Error"),
      Response(404, TRUE, JDict(<< KV("detail", JStr("Not Found")) >>), ""),
      Response(201, TRUE, ContentOf(JList(<< TextItem("Article L3141-1") >>)), ""),
      RequestError("[Errno 111] Connection refused"),
      RequestError("timed out") }

NoResult == [raised |-> FALSE, value |-> ""]

InitTools ==
    /\ mcp_client = "regulai"
    /\ mcp_pc = "idle"
    /\ tool_input = NoInput
    /\ client_calls = << >>
    /\ http_requests = << >>
    /\ http_outcome = NoOutcome
    /\ client_return = NoResult
    /\ tool_result = NoResult

\* tool.invoke(input) up to client.post: validation, then the tool body calls
\* the tool client, which posts the request.
T_Invoke(client, input) ==
    /\ mcp_pc = "idle"
    /\ mcp_client' = client
    /\ tool_input' = input
    /\ IF Validates(input.name, input.args)
       THEN LET call == ToolBody(input.name, input.args)
            IN  /\ client_calls' = Append(client_calls, call)
                /\ http_requests' = Append(http_requests,
                      [url |-> ServerUrl(client) \o "/invoke",
                       payload |-> [method |-> "tools/call",
                                    params |-> [name |-> call.tool_name,
                                                arguments |-> call.tool_args]]])
                /\ mcp_pc' = "awaiting"
                /\ UNCHANGED tool_result
       ELSE /\ mcp_pc' = "raised"
            /\ tool_result' = [raised |-> TRUE,
                  value |-> "ValidationError: " \o RequiredField(input.name) \o " Field required"]
            /\ UNCHANGED << client_calls, http_requests >>
    /\ UNCHANGED << http_outcome, client_return >>

\* client.post ends; the tool client computes its return value, which the
\* tool body returns as it is.
T_Respond(outcome) ==
    LET call == client_calls[Len(client_calls)]
        r    == IF mcp_client = "regulai"
                THEN MCPClient_call_tool(ServerUrl(mcp_client), call.tool_name, outcome)
                ELSE _make_mcp_request(call.tool_name, outcome)
    IN  /\ mcp_pc = "awaiting"
        /\ http_outcome' = outcome
        /\ client_return' = r
        /\ tool_result' = r
        /\ mcp_pc' = IF r.raised THEN "raised" ELSE "returned"
        /\ UNCHANGED << mcp_client, tool_input, client_calls, http_requests >>

\* The invocation is over; the next one starts afresh.
T_Reset ==
    /\ mcp_pc \in {"returned", "raised"}
    /\ mcp_client' = "regulai"
    /\ mcp_pc' = "idle"
    /\ tool_input' = NoInput
    /\ client_calls' = << >>
    /\ http_requests' = << >>
    /\ http_outcome' = NoOutcome
    /\ client_return' = NoResult
    /\ tool_result' = NoResult

(***************************************************************************)
(* Launcher: src/start.py (RegulAILauncher)                                *)
(***************************************************************************)
MaxHealthAttempts == 2   \* iterations of the health-check loop before its timeout

Step(name, ok) == [name |-> name, ok |-> ok]

\* How each child reacts to terminate(): TRUE when wait(timeout=5) returns,
\* FALSE when it times out and kill() follows.
Graceful == [{"streamlit", "mcp"} -> BOOLEAN]

InitLauncher ==
    /\ launcher_pc = "constructed"
    /\ mcp_process = "None"
    /\ streamlit_process = "None"
    /\ steps = << >>
    /\ attempt = 0
    /\ signals = << >>
    /\ cleanups = 0
    /\ exit_code = -1

\* One of the two blocks of cleanup(): `if proc and proc.poll() is None:`
\* terminate(), wait(timeout=5), and kill(), wait() on TimeoutExpired.
stop(n, child, proc, graceful) ==
    IF proc = "running"
    THEN LET sent == IF graceful THEN << "terminate" >> ELSE << "terminate", "kill" >>
         IN  [proc |-> "exited",
              signals |-> [k \in 1..Len(sent) |->
                              [call |-> n, child |-> child, sig |-> sent[k],
                               was |-> proc]]]
    ELSE [proc |-> proc, signals |-> << >>]

\* Faulty variant of cleanup: the Streamlit block is missing.
cleanup_mcp_only(n, streamlit, mcp, graceful) ==
    LET m == stop(n, "mcp", mcp, graceful["mcp"])
    IN  [streamlit_process |-> streamlit, mcp_process |-> m.proc,
         signals |-> m.signals]

\* cleanup(): Streamlit first, then the MCP server.
cleanup(n, streamlit, mcp, graceful) ==
    LET s == stop(n, "streamlit", streamlit, graceful["streamlit"])
        m == stop(n, "mcp", mcp, graceful["mcp"])
    IN  [streamlit_process |-> s.proc, mcp_process |-> m.proc,
         signals |-> s.signals \o m.signals]

\* Faulty variant of run: the result of the health check is not looked at.
run_after_ignoring_health(step, ok) ==
    IF ~ok /\ step # "wait_for_mcp_health"
    THEN (IF step = "_validate_paths" THEN "returned" ELSE "finally")
    ELSE CASE step = "_validate_paths" -> "start_mcp_server"
           [] step = "start_mcp_server" -> "wait_for_mcp_health"
           [] step = "wait_for_mcp_health" -> "start_streamlit"
           [] step = "start_streamlit" -> "monitor"

\* run(): the statement reached once `step` has returned `ok`.  A failed
\* validation returns before the try block, every other failure returns from
\* inside it and so passes through the finally block.
run_after(step, ok) ==
    IF ~ok
    THEN (IF step = "_validate_paths" THEN "returned" ELSE "finally")
    ELSE CASE step = "_validate_paths" -> "start_mcp_server"
           [] step = "start_mcp_server" -> "wait_for_mcp_health"
           [] step = "wait_for_mcp_health" -> "start_streamlit"
           [] step = "start_streamlit" -> "monitor"

\* A step of run() has returned `ok`.
Stepped(step, ok) ==
    /\ steps' = Append(steps, Step(step, ok))
    /\ launcher_pc' = run_after(step, ok)
    /\ exit_code' = IF ok THEN exit_code ELSE 1

\* if not self._validate_paths(): return 1
L_Validate(ok) ==
    /\ launcher_pc = "constructed"
    /\ Stepped("_validate_paths", ok)
    /\ UNCHANGED << mcp_process, streamlit_process, attempt, signals, cleanups >>

\* start_mcp_server(): Popen succeeds, or raises and False is returned.
L_StartMcp(ok) ==
    /\ launcher_pc = "start_mcp_server"
    /\ Stepped("start_mcp_server", ok)
    /\ mcp_process' = IF ok THEN "running" ELSE mcp_process
    /\ UNCHANGED << streamlit_process, attempt, signals, cleanups >>

\* One iteration of the loop of wait_for_mcp_health(): the server answers
\* (return True), or it does not and the MCP process is polled (return False
\* when it has exited, sleep otherwise).
L_HealthAttempt(answers) ==
    /\ launcher_pc = "wait_for_mcp_health"
    /\ attempt < MaxHealthAttempts
    /\ attempt' = attempt + 1
    /\ IF answers
       THEN Stepped("wait_for_mcp_health", TRUE)
       ELSE IF mcp_process # "running"
            THEN Stepped("wait_for_mcp_health", FALSE)
            ELSE UNCHANGED << steps, launcher_pc, exit_code >>
    /\ UNCHANGED << mcp_process, streamlit_process, signals, cleanups >>

\* The loop of wait_for_mcp_health() runs out of time.
L_HealthTimeout ==
    /\ launcher_pc = "wait_for_mcp_health"
    /\ attempt = MaxHealthAttempts
    /\ Stepped("wait_for_mcp_health", FALSE)
    /\ UNCHANGED << mcp_process, streamlit_process, attempt, signals, cleanups >>

\* start_streamlit(): Popen succeeds, or raises and False is returned.
L_StartStreamlit(ok) ==
    /\ launcher_pc = "start_streamlit"
    /\ Stepped("start_streamlit", ok)
    /\ streamlit_process' = IF ok THEN "running" ELSE streamlit_process
    /\ UNCHANGED << mcp_process, attempt, signals, cleanups >>

\* The monitoring loop breaks when one of the children has exited: return 0.
L_Monitor ==
    /\ launcher_pc = "monitor"
    /\ mcp_process # "running" \/ streamlit_process # "running"
    /\ launcher_pc' = "finally"
    /\ exit_code' = 0
    /\ UNCHANGED << mcp_process, streamlit_process, steps, attempt, signals,
                    cleanups >>

\* finally: self.cleanup(), then run() returns.
L_Finally(graceful) ==
    LET after == cleanup(cleanups + 1, streamlit_process, mcp_process, graceful)
    IN  /\ launcher_pc = "finally"
        /\ streamlit_process' = after.streamlit_process
        /\ mcp_process' = after.mcp_process
        /\ signals' = signals \o after.signals
        /\ cleanups' = cleanups + 1
        /\ launcher_pc' = "returned"
        /\ UNCHANGED << steps, attempt, exit_code >>

\* SIGINT / SIGTERM: _signal_handler calls cleanup() and sys.exit(0); the
\* SystemExit leaves run() through its finally block when it is raised inside
\* the try block, and run() does not return.
L_Signal(graceful) ==
    LET in_try  == launcher_pc \in {"start_mcp_server", "wait_for_mcp_health",
                                   "start_streamlit", "monitor", "finally"}
        handler == cleanup(cleanups + 1, streamlit_process, mcp_process, graceful)
        final   == cleanup(cleanups + 2, handler.streamlit_process,
                           handler.mcp_process, graceful)
    IN  /\ launcher_pc \notin {"exited", "terminated"}
        /\ streamlit_process' =
              IF in_try THEN final.streamlit_process ELSE handler.streamlit_process
        /\ mcp_process' = IF in_try THEN final.mcp_process ELSE handler.mcp_process
        /\ signals' = signals \o handler.signals
                              \o (IF in_try THEN final.signals ELSE << >>)
        /\ cleanups' = cleanups + (IF in_try THEN 2 ELSE 1)
        /\ launcher_pc' = "exited"
        /\ UNCHANGED << steps, attempt, exit_code >>

\* atexit.register(self.cleanup): cleanup() runs once more when the
\* interpreter exits.
L_AtExit(graceful) ==
    LET after == cleanup(cleanups + 1, streamlit_process, mcp_process, graceful)
    IN  /\ launcher_pc \in {"returned", "exited"}
        /\ streamlit_process' = after.streamlit_process
        /\ mcp_process' = after.mcp_process
        /\ signals' = signals \o after.signals
        /\ cleanups' = cleanups + 1
        /\ launcher_pc' = "terminated"
        /\ UNCHANGED << steps, attempt, exit_code >>

\* A child process ends on its own.
L_ChildDies(child) ==
    /\ launcher_pc # "terminated"
    /\ IF child = "mcp"
       THEN /\ mcp_process = "running"
            /\ mcp_process' = "exited"
            /\ UNCHANGED streamlit_process
       ELSE /\ streamlit_process = "running"
            /\ streamlit_process' = "exited"
            /\ UNCHANGED mcp_process
    /\ UNCHANGED << launcher_pc, steps, attempt, signals, cleanups, exit_code >>

(***************************************************************************)
(* Streaming to the UI: src/streamlit_app.py (process_streaming_events)    *)
(***************************************************************************)
InitStream ==
    /\ stream_generator = [kind |-> "values", events |-> << >>, raises |-> FALSE]
    /\ stream_pc = "idle"
    /\ consumed = 0
    /\ active_statuses = {}
    /\ created = << >>
    /\ completed = << >>
    /\ last_content = ""
    /\ yielded = << >>
    /\ caught = ""

(***************************************************************************)
(* Initial state: nothing saved, every caller idle.                        *)
(***************************************************************************)
NoSave == [saved |-> FALSE, messages |-> << >>]
Saved(msgs) == [saved |-> TRUE, messages |-> msgs]

InitLocals ==
    /\ pc = [c \in Callers |-> "idle"]
    /\ thread = [c \in Callers |-> "A"]
    /\ messages = [c \in Callers |-> << >>]
    /\ llm_response = [c \in Callers |-> NoMsg]
    /\ futures = [c \in Callers |-> << >>]
    /\ result = [c \in Callers |-> NoMsg]
    /\ error = [c \in Callers |-> ""]
    /\ modelInputs = [c \in Callers |-> << >>]
    /\ toolInvocations = [c \in Callers |-> EmptyBag]
    /\ trace = [c \in Callers |-> << >>]
    /\ toolReturns = [c \in Callers |-> << >>]
    /\ prevSaved = [c \in Callers |-> NoSave]
    /\ histAtStart = [c \in Callers |-> << >>]
    /\ store = [t \in Threads |-> NoSave]
    /\ history = [t \in Threads |-> << >>]
    /\ turns = 0
    /\ requests = 0
    /\ calls = 0

\* The functional agent builds its model at import time and never reads the
\* configuration object, so one value of `config` stands for all there.
Init ==
    /\ impl \in Impls
    /\ active = {1}
    /\ config \in (IF impl = "graph" THEN Configs
                   ELSE {cfg \in Configs : cfg.class = "Substitute"})
    /\ InitLocals
    /\ InitTools
    /\ InitLauncher
    /\ InitStream

UserText(n) == "user " \o ToString(n)
ModelText(n) == "ai " \o ToString(n)

\* What a new turn resets.
BeginTurn(c, t, user) ==
    /\ pc[c] \in {"idle", "done", "failed"}
    /\ turns < MaxTurns
    /\ turns' = turns + 1
    /\ pc' = [pc EXCEPT ![c] = "model"]
    /\ thread' = [thread EXCEPT ![c] = t]
    /\ llm_response' = [llm_response EXCEPT ![c] = NoMsg]
    /\ futures' = [futures EXCEPT ![c] = << >>]
    /\ result' = [result EXCEPT ![c] = NoMsg]
    /\ error' = [error EXCEPT ![c] = ""]
    /\ modelInputs' = [modelInputs EXCEPT ![c] = << >>]
    /\ toolInvocations' = [toolInvocations EXCEPT ![c] = EmptyBag]
    /\ trace' = [trace EXCEPT ![c] = << user >>]
    /\ toolReturns' = [toolReturns EXCEPT ![c] = << >>]
    /\ prevSaved' = [prevSaved EXCEPT ![c] = store[t]]
    /\ histAtStart' = [histAtStart EXCEPT ![c] = history[t]]

(***************************************************************************)
(* Functional agent: src/agent/main.py                                     *)
(***************************************************************************)
\* agent(messages, previous), up to the first call_model(...).result()
F_Start(c, t) ==
    LET user     == HumanMessage(UserText(turns + 1))
        previous == store[t]
    IN  /\ impl = "func"
        /\ BeginTurn(c, t, user)
        /\ messages' = [messages EXCEPT ![c] =
              IF previous.saved THEN add_messages(previous.messages, << user >>)
              ELSE << user >>]
        /\ UNCHANGED << impl, active, store, history, config, calls, requests >>

\* Faulty variant of loop_breaks: the loop is left after every response.
loop_breaks_always(response) == TRUE

\* `if not llm_response.tool_calls: break`
loop_breaks(response) == response.tool_calls = << >>

\* call_model returns llm_response; the loop either breaks and finishes the
\* turn (entrypoint.final) or dispatches one call_tool task per tool call.
F_ModelReturn(c, tcs) ==
    LET resp  == AIMessage(ModelText(calls + 1), tcs)
        final == add_messages(messages[c], << resp >>)
        t     == thread[c]
    IN  /\ impl = "func"
        /\ pc[c] = "model"
        /\ calls < MaxModelCalls
        /\ requests + Len(tcs) <= MaxRequests
        /\ calls' = calls + 1
        /\ requests' = requests + Len(tcs)
        /\ modelInputs' = [modelInputs EXCEPT ![c] = Append(@, messages[c])]
        /\ llm_response' = [llm_response EXCEPT ![c] = resp]
        /\ trace' = [trace EXCEPT ![c] = Append(@, resp)]
        /\ toolReturns' = [toolReturns EXCEPT ![c] = [i \in 1..Len(tcs) |-> NotCalled]]
        /\ IF loop_breaks(resp)
           THEN /\ messages' = [messages EXCEPT ![c] = final]
                /\ store' = [store EXCEPT ![t] = Saved(final)]
                /\ result' = [result EXCEPT ![c] = resp]
                /\ history' = [history EXCEPT ![t] = @ \o trace'[c]]
                /\ pc' = [pc EXCEPT ![c] = "done"]
                /\ UNCHANGED futures
           ELSE /\ futures' = [futures EXCEPT ![c] =
                      [i \in 1..Len(resp.tool_calls) |->
                          [state |-> "pending", exc |-> "", msg |-> NoMsg]]]
                /\ pc' = [pc EXCEPT ![c] = "tools"]
                /\ UNCHANGED << messages, store, result, history >>
        /\ UNCHANGED << impl, active, thread, error, toolInvocations, prevSaved,
                        histAtStart, config, turns >>

\* Faulty variant of F_ModelRaise: the messages gathered so far are saved
\* under the thread before the failure leaves the entrypoint.
F_ModelRaise_saving_partial(c) ==
    /\ impl = "func"
    /\ pc[c] = "model"
    /\ calls < MaxModelCalls
    /\ calls' = calls + 1
    /\ modelInputs' = [modelInputs EXCEPT ![c] = Append(@, messages[c])]
    /\ pc' = [pc EXCEPT ![c] = "failed"]
    /\ error' = [error EXCEPT ![c] = "ModelCallError"]
    /\ store' = [store EXCEPT ![thread[c]] = Saved(messages[c])]
    /\ UNCHANGED << impl, active, thread, messages, llm_response, futures, result,
                    toolInvocations, trace, prevSaved, histAtStart,
                    history, config, turns, requests, toolReturns >>

\* call_model raises: .result() re-raises in the entrypoint, the turn aborts.
F_ModelRaise(c) ==
    /\ impl = "func"
    /\ pc[c] = "model"
    /\ calls < MaxModelCalls
    /\ calls' = calls + 1
    /\ modelInputs' = [modelInputs EXCEPT ![c] = Append(@, messages[c])]
    /\ pc' = [pc EXCEPT ![c] = "failed"]
    /\ error' = [error EXCEPT ![c] = "ModelCallError"]
    /\ UNCHANGED << impl, active, thread, messages, llm_response, futures, result,
                    toolInvocations, trace, prevSaved, histAtStart, store,
                    history, config, turns, requests, toolReturns >>

\* Faulty variant of call_tool: the result is labelled with the tool's name
\* instead of the tool call's id.
call_tool_labelled_by_name(tool_call, out) ==
    IF tool_call.name \notin ToolNames
    THEN [state |-> "raised", exc |-> "KeyError", msg |-> NoMsg]
    ELSE LET observation == ToolInvoke(tool_call.name, tool_call.args, out)
         IN  IF observation.raised
             THEN [state |-> "raised", exc |-> observation.value, msg |-> NoMsg]
             ELSE [state |-> "done", exc |-> "",
                   msg |-> ToolMessage(observation.value, tool_call.name)]

\* The @task call_tool(tool_call): the state its future ends in.
call_tool(tool_call, out) ==
    IF tool_call.name \notin ToolNames
    THEN [state |-> "raised", exc |-> "KeyError", msg |-> NoMsg]
    ELSE LET observation == ToolInvoke(tool_call.name, tool_call.args, out)
         IN  IF observation.raised
             THEN [state |-> "raised", exc |-> observation.value, msg |-> NoMsg]
             ELSE [state |-> "done", exc |-> "",
                   msg |-> ToolMessage(observation.value, tool_call.id)]

\* One of the parallel call_tool tasks completes (in any order).
F_ToolTask(c, i, out) ==
    LET tool_call == llm_response[c].tool_calls[i]
    IN  /\ impl = "func"
        /\ pc[c] = "tools"
        /\ i \in 1..Len(futures[c])
        /\ futures[c][i].state = "pending"
        /\ futures' = [futures EXCEPT ![c][i] = call_tool(tool_call, out)]
        /\ toolInvocations' = [toolInvocations EXCEPT ![c] =
              IF tool_call.name \in ToolNames
              THEN @ (+) SetToBag({Invocation(tool_call)}) ELSE @]
        /\ toolReturns' = [toolReturns EXCEPT ![c][i] =
              IF Reaches(tool_call) THEN out ELSE @]
        /\ UNCHANGED << impl, active, pc, thread, messages, llm_response, result,
                        error, modelInputs, trace, prevSaved, histAtStart, store,
                        history, config, turns, calls, requests >>

\* tool_results = [fut.result() for fut in tool_result_futures], then
\* add_messages(messages, [llm_response, *tool_results]).  The first future
\* (in request order) that raised re-raises in the entrypoint.
FirstRaised(futs) ==
    {k \in 1..Len(futs) :
        /\ futs[k].state = "raised"
        /\ \A j \in 1..(k - 1) : futs[j].state = "done"}

AllDone(futs) == \A j \in 1..Len(futs) : futs[j].state = "done"

\* Faulty variant of F_Collect: the results are taken from the last future to
\* the first.
F_Collect_last_first(c) ==
    LET futs         == futures[c]
        tool_results == [j \in 1..Len(futs) |-> futs[Len(futs) + 1 - j].msg]
    IN  /\ impl = "func"
        /\ pc[c] = "tools"
        /\ \/ /\ AllDone(futs)
              /\ messages' = [messages EXCEPT ![c] =
                    add_messages(@, << llm_response[c] >> \o tool_results)]
              /\ trace' = [trace EXCEPT ![c] = @ \o tool_results]
              /\ pc' = [pc EXCEPT ![c] = "model"]
              /\ UNCHANGED error
           \/ /\ FirstRaised(futs) # {}
              /\ error' = [error EXCEPT ![c] =
                    futs[CHOOSE k \in FirstRaised(futs) : TRUE].exc]
              /\ pc' = [pc EXCEPT ![c] = "failed"]
              /\ UNCHANGED << messages, trace >>
        /\ UNCHANGED << impl, active, thread, llm_response, futures, result,
                        modelInputs, toolInvocations, prevSaved, histAtStart,
                        store, history, config, turns, calls, requests, toolReturns >>

\* The entrypoint collects the futures in request order.
F_Collect(c) ==
    LET futs         == futures[c]
        tool_results == [j \in 1..Len(futs) |-> futs[j].msg]
    IN  /\ impl = "func"
        /\ pc[c] = "tools"
        /\ \/ /\ AllDone(futs)
              /\ messages' = [messages EXCEPT ![c] =
                    add_messages(@, << llm_response[c] >> \o tool_results)]
              /\ trace' = [trace EXCEPT ![c] = @ \o tool_results]
              /\ pc' = [pc EXCEPT ![c] = "model"]
              /\ UNCHANGED error
           \/ /\ FirstRaised(futs) # {}
              /\ error' = [error EXCEPT ![c] =
                    futs[CHOOSE k \in FirstRaised(futs) : TRUE].exc]
              /\ pc' = [pc EXCEPT ![c] = "failed"]
              /\ UNCHANGED << messages, trace >>
        /\ UNCHANGED << impl, active, thread, llm_response, futures, result,
                        modelInputs, toolInvocations, prevSaved, histAtStart,
                        store, history, config, turns, calls, requests, toolReturns >>

(***************************************************************************)
(* StateGraph agent: src/regulai/agent.py, src/regulai/graph.py            *)
(***************************************************************************)
\* Faulty variant of should_continue: the tools node is always taken.
should_continue_always_tools(state_messages) == "tools"

\* should_continue(state)
should_continue(state_messages) ==
    LET last_message == state_messages[Len(state_messages)]
    IN  IF last_message.type = "ai" /\ last_message.tool_calls # << >>
        THEN "tools" ELSE "__end__"

\* Faulty variant of the loop body of call_tools: the error text of a failed
\* invocation does not name the tool.
tool_message_unnamed_error(tool_call, out) ==
    IF tool_call.name \in ToolNames
    THEN LET r == ToolInvoke(tool_call.name, tool_call.args, out)
         IN  IF r.raised
             THEN ToolMessage("Erreur: " \o r.value, tool_call.id)
             ELSE ToolMessage(r.value, tool_call.id)
    ELSE ToolMessage("Outil '" \o tool_call.name \o "' non disponible", tool_call.id)

\* The loop body of call_tools for one tool call.
tool_message(tool_call, out) ==
    IF tool_call.name \in ToolNames
    THEN LET r == ToolInvoke(tool_call.name, tool_call.args, out)
         IN  IF r.raised
             THEN ToolMessage("Erreur lors de l'execution de " \o tool_call.name
                                  \o ": " \o r.value, tool_call.id)
             ELSE ToolMessage(r.value, tool_call.id)
    ELSE ToolMessage("Outil '" \o tool_call.name \o "' non disponible", tool_call.id)

\* Faulty variant of call_tools: only the first tool call is executed.
call_tools_first_only(state_messages, outs) ==
    LET last_message == state_messages[Len(state_messages)]
    IN  IF last_message.type # "ai" \/ last_message.tool_calls = << >>
        THEN << >>
        ELSE << tool_message(last_message.tool_calls[1], outs[1]) >>

\* call_tools(state): the returned `messages`; outs[i] is what the remote
\* call of the i-th tool call hands back.
call_tools(state_messages, outs) ==
    LET last_message == state_messages[Len(state_messages)]
    IN  IF last_message.type # "ai" \/ last_message.tool_calls = << >>
        THEN << >>
        ELSE [i \in 1..Len(last_message.tool_calls) |->
                 tool_message(last_message.tool_calls[i], outs[i])]

RECURSIVE InvokedBag(_)
InvokedBag(tcs) ==
    IF tcs = << >> THEN EmptyBag
    ELSE (IF Head(tcs).name \in ToolNames
          THEN SetToBag({Invocation(Head(tcs))}) ELSE EmptyBag) (+) InvokedBag(Tail(tcs))

\* Faulty variant of G_Start: the checkpoint is written without regard to the
\* thread id.
G_Start_all_threads(c, t) ==
    LET user  == HumanMessage(UserText(turns + 1))
        state == ChannelUpdate(store[t].messages, << user >>)
    IN  /\ impl = "graph"
        /\ BeginTurn(c, t, user)
        /\ messages' = [messages EXCEPT ![c] = state]
        /\ store' = [u \in Threads |-> Saved(state)]
        /\ UNCHANGED << impl, active, history, config, calls, requests >>

\* run_agent_conversation / stream_agent_conversation: agent.invoke with
\* {"messages": [user_message]} on the thread's checkpoint.
G_Start(c, t) ==
    LET user  == HumanMessage(UserText(turns + 1))
        state == ChannelUpdate(store[t].messages, << user >>)
    IN  /\ impl = "graph"
        /\ BeginTurn(c, t, user)
        /\ messages' = [messages EXCEPT ![c] = state]
        /\ store' = [store EXCEPT ![t] = Saved(state)]
        /\ UNCHANGED << impl, active, history, config, calls, requests >>

\* The "agent" node (call_model) returns, then the conditional edge.
G_ModelReturn(c, tcs) ==
    LET resp  == AIMessage(ModelText(calls + 1), tcs)
        state == ChannelUpdate(messages[c], << resp >>)
        t     == thread[c]
    IN  /\ impl = "graph"
        /\ pc[c] = "model"
        /\ get_configured_model(config) = "model"
        /\ calls < MaxModelCalls
        /\ requests + Len(tcs) <= MaxRequests
        /\ calls' = calls + 1
        /\ requests' = requests + Len(tcs)
        /\ modelInputs' = [modelInputs EXCEPT ![c] = Append(@, messages[c])]
        /\ llm_response' = [llm_response EXCEPT ![c] = resp]
        /\ trace' = [trace EXCEPT ![c] = Append(@, resp)]
        /\ toolReturns' = [toolReturns EXCEPT ![c] = [i \in 1..Len(tcs) |-> NotCalled]]
        /\ messages' = [messages EXCEPT ![c] = state]
        /\ store' = [store EXCEPT ![t] = Saved(state)]
        /\ IF should_continue(state) = "tools"
           THEN /\ pc' = [pc EXCEPT ![c] = "tools"]
                /\ UNCHANGED << result, history >>
           ELSE /\ pc' = [pc EXCEPT ![c] = "done"]
                /\ result' = [result EXCEPT ![c] = state[Len(state)]]
                /\ history' = [history EXCEPT ![t] = @ \o trace'[c]]
        /\ UNCHANGED << impl, active, thread, futures, error, toolInvocations,
                        prevSaved, histAtStart, config, turns >>

\* The "agent" node raises: get_configured_model fails, or the model call does.
G_ModelRaise(c) ==
    LET m == get_configured_model(config)
    IN  /\ impl = "graph"
        /\ pc[c] = "model"
        /\ m = "model" => calls < MaxModelCalls
        /\ calls' = IF m = "model" THEN calls + 1 ELSE calls
        /\ modelInputs' = [modelInputs EXCEPT ![c] =
              IF m = "model" THEN Append(@, messages[c]) ELSE @]
        /\ pc' = [pc EXCEPT ![c] = "failed"]
        /\ error' = [error EXCEPT ![c] = IF m = "model" THEN "ModelCallError" ELSE m]
        /\ UNCHANGED << impl, active, thread, messages, llm_response, futures,
                        result, toolInvocations, trace, prevSaved, histAtStart,
                        store, history, config, turns, requests, toolReturns >>

\* The "tools" node (call_tools), then the edge back to "agent".
G_CallTools(c, outs) ==
    LET tool_messages == call_tools(messages[c], outs)
        state         == ChannelUpdate(messages[c], tool_messages)
        last_message  == messages[c][Len(messages[c])]
    IN  /\ impl = "graph"
        /\ pc[c] = "tools"
        /\ toolInvocations' = [toolInvocations EXCEPT ![c] =
              @ (+) InvokedBag(last_message.tool_calls)]
        /\ trace' = [trace EXCEPT ![c] = @ \o tool_messages]
        /\ toolReturns' = [toolReturns EXCEPT ![c] =
              [i \in 1..Len(last_message.tool_calls) |->
                  IF Reaches(last_message.tool_calls[i]) THEN outs[i] ELSE NotCalled]]
        /\ messages' = [messages EXCEPT ![c] = state]
        /\ store' = [store EXCEPT ![thread[c]] = Saved(state)]
        /\ pc' = [pc EXCEPT ![c] = "model"]
        /\ UNCHANGED << impl, active, thread, llm_response, futures, result, error,
                        modelInputs, prevSaved, histAtStart, history, config,
                        turns, calls, requests >>

(***************************************************************************)
(* Specification                                                           *)
(***************************************************************************)
FStart == (\E c \in active, t \in Threads : F_Start(c, t)) /\ UNCHANGED << mcpVars, launcherVars, streamVars >>
FModelReturn == (\E c \in active, tcs \in ToolCallSeqs(calls + 1) : F_ModelReturn(c, tcs)) /\ UNCHANGED << mcpVars, launcherVars, streamVars >>
FModelRaise == (\E c \in active : F_ModelRaise(c)) /\ UNCHANGED << mcpVars, launcherVars, streamVars >>
FToolTask == (\E c \in active, i \in 1..MaxRequests, out \in ToolOutputs : F_ToolTask(c, i, out)) /\ UNCHANGED << mcpVars, launcherVars, streamVars >>
FCollect == (\E c \in active : F_Collect(c)) /\ UNCHANGED << mcpVars, launcherVars, streamVars >>
GStart == (\E c \in active, t \in Threads : G_Start(c, t)) /\ UNCHANGED << mcpVars, launcherVars, streamVars >>
GModelReturn == (\E c \in active, tcs \in ToolCallSeqs(calls + 1) : G_ModelReturn(c, tcs)) /\ UNCHANGED << mcpVars, launcherVars, streamVars >>
GModelRaise == (\E c \in active : G_ModelRaise(c)) /\ UNCHANGED << mcpVars, launcherVars, streamVars >>
GCallTools == (\E c \in active, outs \in [1..MaxRequests -> ToolOutputs] : G_CallTools(c, outs)) /\ UNCHANGED << mcpVars, launcherVars, streamVars >>

Next ==
    \/ FStart
    \/ FModelReturn
    \/ FModelRaise
    \/ FToolTask
    \/ FCollect
    \/ GStart
    \/ GModelReturn
    \/ GModelRaise
    \/ GCallTools

Spec == Init /\ [][Next]_vars

\* Two callers (two threads of the host process, e.g. two Streamlit script
\* runs) use the same compiled agent at the same time.
InitConcurrent ==
    /\ impl \in Impls
    /\ active = Callers
    /\ config \in (IF impl = "graph" THEN Configs
                   ELSE {cfg \in Configs : cfg.class = "Substitute"})
    /\ InitLocals
    /\ InitTools
    /\ InitLauncher
    /\ InitStream

SpecConcurrent == InitConcurrent /\ [][Next]_vars

\* A run in which the model ends up answering without tool requests (its last
\* call within the bound does), and in which the agent loop keeps running:
\* a model call that was made ends (returns or raises), a dispatched tool
\* task ends, the loop collects and goes on.  A caller need not start a turn,
\* and starts one only while the model can still be called within the bound.
FStartBounded ==
    (\E c \in active, t \in Threads : calls < MaxModelCalls /\ F_Start(c, t)) /\ UNCHANGED << mcpVars, launcherVars, streamVars >>
GStartBounded ==
    (\E c \in active, t \in Threads : calls < MaxModelCalls /\ G_Start(c, t)) /\ UNCHANGED << mcpVars, launcherVars, streamVars >>
FModelReturnFinally ==
    (\E c \in active, tcs \in ToolCallSeqs(calls + 1) :
        /\ calls + 1 = MaxModelCalls => tcs = << >>
        /\ F_ModelReturn(c, tcs)) /\ UNCHANGED << mcpVars, launcherVars, streamVars >>
GModelReturnFinally ==
    (\E c \in active, tcs \in ToolCallSeqs(calls + 1) :
        /\ calls + 1 = MaxModelCalls => tcs = << >>
        /\ G_ModelReturn(c, tcs)) /\ UNCHANGED << mcpVars, launcherVars, streamVars >>

NextLive ==
    \/ FStartBounded
    \/ FModelReturnFinally
    \/ FModelRaise
    \/ FToolTask
    \/ FCollect
    \/ GStartBounded
    \/ GModelReturnFinally
    \/ GModelRaise
    \/ GCallTools

Fairness ==
    /\ WF_vars(FModelReturnFinally \/ FModelRaise)
    /\ WF_vars(FToolTask)
    /\ WF_vars(FCollect)
    /\ WF_vars(GModelReturnFinally \/ GModelRaise)
    /\ WF_vars(GCallTools)

SpecLive == Init /\ [][NextLive]_vars /\ Fairness

\* Tool invocations on their own: the agents stay idle, every tool input and
\* every outcome of the HTTP request is tried on both tool clients.
InitMCP ==
    /\ impl \in Impls
    /\ active = {1}
    /\ config \in {cfg \in Configs : cfg.class = "Substitute"}
    /\ InitLocals
    /\ InitTools
    /\ InitLauncher
    /\ InitStream

TInvoke == (\E client \in Clients, input \in ToolInputs : T_Invoke(client, input)) /\ UNCHANGED << agentVars, launcherVars, streamVars >>
TRespond == (\E outcome \in HttpOutcomes : T_Respond(outcome)) /\ UNCHANGED << agentVars, launcherVars, streamVars >>
TReset == T_Reset /\ UNCHANGED << agentVars, launcherVars, streamVars >>

NextMCP ==
    \/ TInvoke
    \/ TRespond
    \/ TReset

SpecMCP == InitMCP /\ [][NextMCP]_vars

(***************************************************************************)
(* Launcher specification                                                  *)
(***************************************************************************)
LValidate == (\E ok \in BOOLEAN : L_Validate(ok)) /\ UNCHANGED << agentVars, mcpVars, streamVars >>
LStartMcp == (\E ok \in BOOLEAN : L_StartMcp(ok)) /\ UNCHANGED << agentVars, mcpVars, streamVars >>
LHealthAttempt == (\E answers \in BOOLEAN : L_HealthAttempt(answers)) /\ UNCHANGED << agentVars, mcpVars, streamVars >>
LHealthTimeout == L_HealthTimeout /\ UNCHANGED << agentVars, mcpVars, streamVars >>
LStartStreamlit == (\E ok \in BOOLEAN : L_StartStreamlit(ok)) /\ UNCHANGED << agentVars, mcpVars, streamVars >>
LMonitor == L_Monitor /\ UNCHANGED << agentVars, mcpVars, streamVars >>
LFinally == (\E graceful \in Graceful : L_Finally(graceful)) /\ UNCHANGED << agentVars, mcpVars, streamVars >>
LSignal == (\E graceful \in Graceful : L_Signal(graceful)) /\ UNCHANGED << agentVars, mcpVars, streamVars >>
LAtExit == (\E graceful \in Graceful : L_AtExit(graceful)) /\ UNCHANGED << agentVars, mcpVars, streamVars >>
LChildDies == (\E child \in {"streamlit", "mcp"} : L_ChildDies(child)) /\ UNCHANGED << agentVars, mcpVars, streamVars >>

\* The launcher on its own: the Streamlit application it starts runs the
\* StateGraph agent, which stays idle here.
InitGraphIdle ==
    /\ impl = "graph"
    /\ active = {1}
    /\ config \in {cfg \in Configs : cfg.class = "Substitute"}
    /\ InitLocals
    /\ InitTools
    /\ InitLauncher
    /\ InitStream

NextLauncher ==
    \/ LValidate
    \/ LStartMcp
    \/ LHealthAttempt
    \/ LHealthTimeout
    \/ LStartStreamlit
    \/ LMonitor
    \/ LFinally
    \/ LSignal
    \/ LAtExit
    \/ LChildDies

SpecLauncher == InitGraphIdle /\ [][NextLauncher]_vars

(***************************************************************************)
(* Streaming: the events of a graph turn and their handling                *)
(***************************************************************************)
\* The messages of a turn after the user message, grouped by the node step
\* that returned them: one assistant message per "agent" step, the tool
\* messages of one "tools" step together.
RECURSIVE LeadingTools(_)
LeadingTools(msgs) ==
    IF msgs = << >> \/ Head(msgs).type # "tool" THEN 0
    ELSE 1 + LeadingTools(Tail(msgs))

RECURSIVE StepOutputs(_)
StepOutputs(msgs) ==
    IF msgs = << >> THEN << >>
    ELSE IF Head(msgs).type # "tool"
         THEN << << Head(msgs) >> >> \o StepOutputs(Tail(msgs))
         ELSE LET n == LeadingTools(msgs)
              IN  << SubSeq(msgs, 1, n) >> \o StepOutputs(SubSeq(msgs, n + 1, Len(msgs)))

\* An event is a dict, given as its items in order, or a string; a value of
\* a dict is either a dict (with or without the key "messages") or a list.
DictEvent(key, value_type, msgs) ==
    [type |-> "dict", text |-> "",
     items |-> << [key |-> key,
                   value |-> [type |-> value_type,
                              has_messages |-> value_type = "dict",
                              messages |-> msgs]] >>]

\* stream_mode="updates": {node_name: {"messages": <what the node returned>}}.
UpdatesEvents(outputs) ==
    [k \in 1..Len(outputs) |->
        DictEvent(IF outputs[k][1].type = "tool" THEN "tools" ELSE "agent",
                  "dict", outputs[k])]

\* stream_mode="values": the whole state {"messages": [...]} once the input is
\* applied and after every step.
RECURSIVE ValuesStates(_, _)
ValuesStates(state_messages, outputs) ==
    IF outputs = << >> THEN << >>
    ELSE LET next == ChannelUpdate(state_messages, Head(outputs))
         IN  << next >> \o ValuesStates(next, Tail(outputs))

ValuesEvents(start, input, outputs) ==
    LET first  == ChannelUpdate(start, input)
        states == << first >> \o ValuesStates(first, outputs)
    IN  [k \in 1..Len(states) |-> DictEvent("messages", "list", states[k])]

\* The generators handed to process_streaming_events: the agent's stream in
\* one of the two stream modes, or a plain generator as the tests write them
\* (some events, then the end or an exception).
Generators ==
    LET GeneratorEvents ==
            { DictEvent("agent", "dict", << AIMessage("test", << >>) >>),
              [type |-> "str", text |-> "chunk", items |-> << >>] }
    IN  { [kind |-> "generator", events |-> evs, raises |-> r] :
            evs \in UNION { [1..n -> GeneratorEvents] : n \in 0..2 }, r \in BOOLEAN }

\* The events the source has produced so far (c is the caller whose turn an
\* agent stream runs).
Events(source, c) ==
    IF source.kind = "generator" THEN source.events
    ELSE IF trace[c] = << >> THEN << >>
    ELSE LET outputs == StepOutputs(Tail(trace[c]))
         IN  IF source.kind = "updates" THEN UpdatesEvents(outputs)
             ELSE ValuesEvents(prevSaved[c].messages, << trace[c][1] >>, outputs)

\* for tool_call in last_message.tool_calls: create st.status(...) unless the
\* id is in active_statuses; st.status raises when ui_ok is FALSE.
RECURSIVE open_statuses(_, _, _)
open_statuses(st, tool_calls, ui_ok) ==
    IF tool_calls = << >> \/ st.raised # "" THEN st
    ELSE LET tool_id == Head(tool_calls).id
         IN  IF tool_id \in st.active_statuses
             THEN open_statuses(st, Tail(tool_calls), ui_ok)
             ELSE IF ~ui_ok
                  THEN [st EXCEPT !.raised = "StreamlitAPIException"]
                  ELSE open_statuses(
                           [st EXCEPT !.active_statuses = @ \cup {tool_id},
                                      !.created = Append(@, tool_id)],
                           Tail(tool_calls), ui_ok)

\* if current_content != last_content: yield current_content
yield_new(st, content) ==
    IF content # st.last_content
    THEN [st EXCEPT !.yielded = Append(@, content), !.last_content = content]
    ELSE st

\* The body of `for node_name, node_data in event.items()`.
handle_node(st, node_name, node_data, ui_ok) ==
    IF node_data.type = "dict" /\ node_data.has_messages /\ node_data.messages # << >>
    THEN LET last_message == node_data.messages[Len(node_data.messages)]
         IN  IF node_name = "agent" /\ last_message.tool_calls # << >>
             THEN open_statuses(st, last_message.tool_calls, ui_ok)
             ELSE IF node_name = "tools" /\ last_message.type = "tool"
             THEN IF last_message.tool_call_id \in st.active_statuses
                  THEN [st EXCEPT !.active_statuses = @ \ {last_message.tool_call_id},
                                  !.completed = Append(@, last_message.tool_call_id)]
                  ELSE st
             ELSE IF /\ node_name = "agent"
                     /\ last_message.content # ""
                     /\ last_message.tool_calls = << >>
             THEN yield_new(st, last_message.content)
             ELSE st
    ELSE st

RECURSIVE handle_items(_, _, _)
handle_items(st, items, ui_ok) ==
    IF items = << >> \/ st.raised # "" THEN st
    ELSE handle_items(handle_node(st, Head(items).key, Head(items).value, ui_ok),
                      Tail(items), ui_ok)

\* The body of `for event in stream_generator`: a dict is handled item by
\* item, anything else is yielded as its text when that is new and not blank.
handle_event(st, event, ui_ok) ==
    IF event.type = "dict" THEN handle_items(st, event.items, ui_ok)
    ELSE IF event.text # "" THEN yield_new(st, event.text)
    ELSE st

\* The text process_streaming_events yields for a caught exception; the
\* cross-mark glyph that opens it in the source is written [X] here.
StreamingError(e) == "[X] Erreur lors du traitement du streaming : " \o e

\* Faulty variant of on_exception: the exception leaves the generator.
on_exception_propagating(out, e) ==
    [yielded |-> out, stream_pc |-> "propagated", caught |-> e]

\* except Exception as e: yield the error text; the generator then ends.
on_exception(out, e) ==
    [yielded |-> Append(out, StreamingError(e)), stream_pc |-> "ended", caught |-> e]

\* process_streaming_events(source) is called: its locals are fresh.
Opened(source) ==
    /\ stream_pc # "streaming"
    /\ stream_generator' = source
    /\ stream_pc' = "streaming"
    /\ consumed' = 0
    /\ active_statuses' = {}
    /\ created' = << >>
    /\ completed' = << >>
    /\ last_content' = ""
    /\ yielded' = << >>
    /\ caught' = ""

\* handle_user_message: stream_agent_conversation(prompt, thread_id, agent)
\* is handed to process_streaming_events; `mode` is the stream mode of the
\* events (agent.py passes "values", the handler is written for "updates").
S_Start(c, t, mode) ==
    G_Start(c, t) /\ Opened([kind |-> mode, events |-> << >>, raises |-> FALSE])

\* The generator takes the next event of the source and handles it.
S_Event(c, ui_ok) ==
    LET events == Events(stream_generator, c)
        locals == [active_statuses |-> active_statuses, created |-> created,
                   completed |-> completed, last_content |-> last_content,
                   yielded |-> yielded, raised |-> ""]
        st     == handle_event(locals, events[consumed + 1], ui_ok)
        end    == on_exception(st.yielded, st.raised)
    IN  /\ stream_pc = "streaming"
        /\ consumed < Len(events)
        /\ consumed' = consumed + 1
        /\ active_statuses' = st.active_statuses
        /\ created' = st.created
        /\ completed' = st.completed
        /\ last_content' = st.last_content
        /\ IF st.raised = ""
           THEN /\ yielded' = st.yielded
                /\ UNCHANGED << stream_pc, caught >>
           ELSE /\ yielded' = end.yielded
                /\ stream_pc' = end.stream_pc
                /\ caught' = end.caught
        /\ UNCHANGED stream_generator

\* The source is exhausted: every event was handled and the turn has ended
\* (or the plain generator returns).
S_End(c) ==
    /\ stream_pc = "streaming"
    /\ consumed = Len(Events(stream_generator, c))
    /\ IF stream_generator.kind = "generator"
       THEN ~stream_generator.raises ELSE pc[c] = "done"
    /\ stream_pc' = "ended"
    /\ UNCHANGED << stream_generator, consumed, active_statuses, created,
                    completed, last_content, yielded, caught >>

\* The source raises once the events it produced are handled: the turn was
\* aborted (or the plain generator raises).
S_Raise(c) ==
    LET e   == IF stream_generator.kind = "generator" THEN "Erreur de test"
               ELSE error[c]
        end == on_exception(yielded, e)
    IN  /\ stream_pc = "streaming"
        /\ consumed = Len(Events(stream_generator, c))
        /\ IF stream_generator.kind = "generator"
           THEN stream_generator.raises ELSE pc[c] = "failed"
        /\ yielded' = end.yielded
        /\ stream_pc' = end.stream_pc
        /\ caught' = end.caught
        /\ UNCHANGED << stream_generator, consumed, active_statuses, created,
                        completed, last_content >>

\* The session streams on one thread id (st.session_state.thread_id).
SStart == (\E mode \in {"values", "updates"} : S_Start(1, "A", mode)) /\ UNCHANGED << mcpVars, launcherVars >>
\* process_streaming_events on a generator that is not an agent's stream, as
\* the tests call it: on its own, with no agent turn around it.
SStartGenerator == (\E source \in Generators : turns = 0 /\ Opened(source)) /\ UNCHANGED << agentVars, mcpVars, launcherVars >>
SEvent == (\E ui_ok \in BOOLEAN : S_Event(1, ui_ok)) /\ UNCHANGED << agentVars, mcpVars, launcherVars >>
SEnd == S_End(1) /\ UNCHANGED << agentVars, mcpVars, launcherVars >>
SRaise == S_Raise(1) /\ UNCHANGED << agentVars, mcpVars, launcherVars >>

InitStreaming ==
    /\ impl = "graph"
    /\ active = {1}
    /\ config \in Configs
    /\ InitLocals
    /\ InitTools
    /\ InitLauncher
    /\ InitStream

NextStream ==
    \/ SStart
    \/ SStartGenerator
    \/ GModelReturn
    \/ GModelRaise
    \/ GCallTools
    \/ SEvent
    \/ SEnd
    \/ SRaise

SpecStream == InitStreaming /\ [][NextStream]_vars

(***************************************************************************)
(* Helpers of the properties                                               *)
(***************************************************************************)
Last(seq) == seq[Len(seq)]
IsPrefix(p, seq) == Len(p) <= Len(seq) /\ SubSeq(seq, 1, Len(p)) = p
IsSuffix(p, seq) ==
    Len(p) <= Len(seq) /\ SubSeq(seq, Len(seq) - Len(p) + 1, Len(seq)) = p
IsAI(m) == m.type = "ai"
IsTool(m) == m.type = "tool"
HasTool(seq) == \E i \in 1..Len(seq) : IsTool(seq[i])

\* The model responses of the current turn, in order.
Responses(c) == SelectSeq(trace[c], IsAI)
\* The tool-result messages of the current turn, in order.
ToolResults(c) == SelectSeq(trace[c], IsTool)

\* A turn's transcript: the user message, then for each loop iteration an
\* assistant message followed by one tool result per tool call (same ids, same
\* order), then the final assistant message without tool calls.
TurnShape(tr) ==
    /\ Len(tr) >= 2
    /\ tr[1].type = "human"
    /\ IsAI(Last(tr)) /\ Last(tr).tool_calls = << >>
    /\ \A i \in 2..Len(tr) : tr[i].type \in {"ai", "tool"}
    /\ IsAI(tr[2])
    /\ \A i \in 2..(Len(tr) - 1) :
          IsAI(tr[i]) =>
              LET n == Len(tr[i].tool_calls)
              IN  /\ n > 0
                  /\ i + n < Len(tr)
                  /\ \A j \in 1..n :
                        /\ IsTool(tr[i + j])
                        /\ tr[i + j].tool_call_id = tr[i].tool_calls[j].id
                  /\ IsAI(tr[i + n + 1])

\* The tool-result messages that followed the last model response.
LastAI(tr) == CHOOSE i \in 1..Len(tr) : IsAI(tr[i]) /\ \A j \in (i + 1)..Len(tr) : ~IsAI(tr[j])
LastResults(c) ==
    IF Responses(c) = << >> THEN << >>
    ELSE SubSeq(trace[c], LastAI(trace[c]) + 1, Len(trace[c]))
Range(seq) == {seq[i] : i \in 1..Len(seq)}
\* The tool calls of the last model response have all been processed.
IterationOver(c) == llm_response[c].tool_calls # << >> /\ pc[c] # "tools"
StrPrefix(p, str) == Len(p) <= Len(str) /\ SubSeq(str, 1, Len(p)) = p

(***************************************************************************)
(* C1 - StateGraph agent, session continuity: on a thread that already     *)
(* completed turns, the first model call of a new turn receives the        *)
(* transcripts of those turns followed by the new user message.            *)
(***************************************************************************)
C1_GraphSessionContinuity ==
    \A c \in Callers :
        (impl = "graph" /\ Len(modelInputs[c]) >= 1) =>
            /\ IsPrefix(histAtStart[c], modelInputs[c][1])
            /\ Last(modelInputs[c][1]) = trace[c][1]

(***************************************************************************)
(* C2 - functional agent, session continuity: the first model call of a    *)
(* turn receives the history saved for the thread (the transcripts of the  *)
(* thread's completed turns) followed by the new user message.             *)
(***************************************************************************)
C2_FuncSessionContinuity ==
    \A c \in Callers :
        (impl = "func" /\ Len(modelInputs[c]) >= 1) =>
            /\ Strip(modelInputs[c][1]) = Strip(prevSaved[c].messages) \o << trace[c][1] >>
            /\ Strip(prevSaved[c].messages) = histAtStart[c]

C2_Witness ==
    \E c \in Callers :
        /\ impl = "func"
        /\ Len(modelInputs[c]) >= 1
        /\ prevSaved[c].saved
        /\ HasTool(histAtStart[c])

(***************************************************************************)
(* C3 - StateGraph agent, append-only state: a step of the "agent" or the  *)
(* "tools" node leaves state["messages"] equal to the list before the step *)
(* followed by the messages the node returned.                             *)
(***************************************************************************)
C3_GraphAppendOnly ==
    [][ \A c \in Callers :
          ( /\ impl = "graph"
            /\ pc[c] \in {"model", "tools"}
            /\ pc'[c] \in {"model", "tools", "done"}
            /\ trace'[c] # trace[c] ) =>
          messages'[c] =
              messages[c] \o SubSeq(trace'[c], Len(trace[c]) + 1, Len(trace'[c])) ]_vars

(***************************************************************************)
(* C4 - functional agent at DONE: the history saved under the thread is    *)
(* the previously saved history (kept as it was), then the turn's          *)
(* transcript (user message, per iteration the assistant message and its   *)
(* tool results, final assistant message); the value returned is that      *)
(* final assistant message.                                                *)
(***************************************************************************)
C4_FuncSavedHistory ==
    \A c \in Callers :
        (impl = "func" /\ pc[c] = "done") =>
            LET new == store[thread[c]]
                old == prevSaved[c].messages
            IN  /\ new.saved
                /\ Strip(new.messages) = Strip(old) \o trace[c]
                /\ IsPrefix(old, new.messages)
                /\ TurnShape(trace[c])
                /\ result[c] = Last(trace[c])
                /\ [Last(new.messages) EXCEPT !.id = 0] = result[c]

C4_Witness ==
    \E c \in Callers :
        /\ impl = "func"
        /\ pc[c] = "done"
        /\ prevSaved[c].saved
        /\ HasTool(trace[c])

(***************************************************************************)
(* C5 - single tool round-trip (both agents): in a turn whose first model  *)
(* response carries one search_legifrance request and whose second carries *)
(* none, the tool was invoked once with the request's arguments, there is  *)
(* one tool result and it carries the request's id, the model was called   *)
(* twice, the turn is DONE and returns the second response's text.         *)
(***************************************************************************)
C5_Case(c) ==
    LET R == Responses(c)
    IN  /\ Len(R) >= 2
        /\ Len(R[1].tool_calls) = 1
        /\ R[1].tool_calls[1].name = "search_legifrance"
        /\ R[2].tool_calls = << >>

C5_SingleToolRoundTrip ==
    \A c \in Callers :
        C5_Case(c) =>
            LET R  == Responses(c)
                tc == R[1].tool_calls[1]
            IN  /\ toolInvocations[c] = SetToBag({Invocation(tc)})
                /\ Len(ToolResults(c)) = 1
                /\ ToolResults(c)[1].tool_call_id = tc.id
                /\ Len(modelInputs[c]) = 2
                /\ Len(R) = 2
                /\ pc[c] = "done"
                /\ result[c].content = R[2].content

C5_Witness ==
    \E c \in Callers : impl = "func" /\ C5_Case(c) /\ pc[c] = "done"

(***************************************************************************)
(* C6 - multi-tool correlation (both agents): once the N tool calls of an  *)
(* assistant message have been processed there are exactly N tool-result   *)
(* messages, one per request id, and none with another id.                 *)
(***************************************************************************)
C6_MultiToolCorrelation ==
    \A c \in Callers :
        IterationOver(c) =>
            LET tcs == llm_response[c].tool_calls
                res == LastResults(c)
                ids == {tcs[i].id : i \in 1..Len(tcs)}
            IN  /\ Len(res) = Len(tcs)
                /\ \A i \in 1..Len(tcs) :
                      Cardinality({j \in 1..Len(res) : res[j].tool_call_id = tcs[i].id}) = 1
                /\ \A j \in 1..Len(res) : res[j].tool_call_id \in ids

(***************************************************************************)
(* C7 - termination with no tools (both agents): in a turn whose first     *)
(* model response carries no tool request the model was called once, no    *)
(* tool was called, the turn is DONE and returns that response unchanged.  *)
(***************************************************************************)
C7_NoToolsTermination ==
    \A c \in Callers :
        LET R == Responses(c)
        IN  (Len(R) >= 1 /\ R[1].tool_calls = << >>) =>
                /\ pc[c] = "done"
                /\ Len(R) = 1
                /\ Len(modelInputs[c]) = 1
                /\ toolInvocations[c] = EmptyBag
                /\ ToolResults(c) = << >>
                /\ result[c] = R[1]

C7_Witness ==
    \E c \in Callers :
        /\ impl = "graph"
        /\ pc[c] = "done"
        /\ Len(Responses(c)) = 1
        /\ result[c].content = ModelText(calls)

(***************************************************************************)
(* C8 - functional agent, tool-level failures: every tool call that has    *)
(* completed left a tool-result message carrying its id, and a turn is     *)
(* never aborted by anything but a failing model call.                     *)
(***************************************************************************)
C8_FuncToolFailureNonFatal ==
    \A c \in Callers :
        impl = "func" =>
            /\ \A i \in 1..Len(futures[c]) :
                  futures[c][i].state # "pending" =>
                      /\ futures[c][i].state = "done"
                      /\ futures[c][i].msg.tool_call_id = llm_response[c].tool_calls[i].id
            /\ pc[c] = "failed" => error[c] = "ModelCallError"

(***************************************************************************)
(* C9 - StateGraph agent, call_tools: the node never aborts the turn and   *)
(* leaves one ToolMessage per tool call of the last assistant message, in  *)
(* order and with the call's id: the remote call's text for a call that    *)
(* went through, an error text naming the tool for an invocation that      *)
(* raised, a "not available" text for an unregistered tool; every call to  *)
(* a registered tool was invoked.                                          *)
(***************************************************************************)
C9_GraphCallTools ==
    \A c \in Callers :
        impl = "graph" =>
            /\ error[c] \in {"", "ModelCallError", "AttributeError", "ValueError"}
            /\ IterationOver(c) =>
                  LET tcs == llm_response[c].tool_calls
                      res == LastResults(c)
                  IN  /\ Len(res) = Len(tcs)
                      /\ \A i \in 1..Len(tcs) :
                            /\ IsTool(res[i])
                            /\ res[i].tool_call_id = tcs[i].id
                            /\ tcs[i].name \notin ToolNames =>
                                  res[i].content = "Outil '" \o tcs[i].name \o "' non disponible"
                            /\ (tcs[i].name \in ToolNames /\ ~ValidArgs(tcs[i].name, tcs[i].args)) =>
                                  StrPrefix("Erreur lors de l'execution de " \o tcs[i].name \o ": ",
                                            res[i].content)
                            /\ Reaches(tcs[i]) => res[i].content = toolReturns[c][i]
                            /\ tcs[i].name \in ToolNames =>
                                  BagIn(Invocation(tcs[i]), toolInvocations[c])

C9_Witness ==
    \E c \in Callers :
        /\ impl = "graph"
        /\ pc[c] = "model"
        /\ Len(llm_response[c].tool_calls) = 2
        /\ llm_response[c].tool_calls[1].name \in ToolNames
        /\ ~ValidArgs(llm_response[c].tool_calls[1].name, llm_response[c].tool_calls[1].args)
        /\ llm_response[c].tool_calls[2].name \notin ToolNames
        /\ Len(LastResults(c)) = 2

(***************************************************************************)
(* C10 - tool failure is non-fatal (both agents): once the tool calls of   *)
(* an assistant message have been processed, a call to which the remote    *)
(* call returned an error string has a tool-result message with exactly    *)
(* that string and the call's id, the loop goes on to a model call that is *)
(* given this message, and nothing but a failing model call aborts the     *)
(* turn.                                                                   *)
(***************************************************************************)
C10_ToolErrorStringNonFatal ==
    \A c \in Callers :
        \A i \in 1..Len(toolReturns[c]) :
            (IterationOver(c) /\ toolReturns[c][i] \in ErrorOutputs) =>
                LET m == ToolMessage(toolReturns[c][i], llm_response[c].tool_calls[i].id)
                IN  /\ m \in Range(LastResults(c))
                    /\ pc[c] = "model" => m \in Range(Strip(messages[c]))
                    /\ pc[c] \in {"model", "failed"}
                    /\ pc[c] = "failed" => error[c] = "ModelCallError"

(***************************************************************************)
(* C11 - functional agent, model failure is fatal: a turn in which a model *)
(* call raised (the first or a later one) is aborted with that failure,    *)
(* hands back no final answer, and leaves under the thread exactly what    *)
(* was saved there before the turn began, which is what a later turn on    *)
(* the thread starts from.                                                 *)
(***************************************************************************)
C11_ModelFailed(c) ==
    /\ impl = "func"
    /\ pc[c] = "failed"
    /\ Len(modelInputs[c]) > Len(Responses(c))

C11_FuncModelFailureFatal ==
    \A c \in Callers :
        C11_ModelFailed(c) =>
            /\ error[c] = "ModelCallError"
            /\ result[c] = NoMsg
            /\ store[thread[c]] = prevSaved[c]
            /\ history[thread[c]] = histAtStart[c]

C11_Witness ==
    \E c \in Callers :
        /\ C11_ModelFailed(c)
        /\ Len(modelInputs[c]) = 2
        /\ Len(ToolResults(c)) = 1
        /\ prevSaved[c].saved

(***************************************************************************)
(* C12 - StateGraph agent with the MemorySaver checkpointer: when a model  *)
(* call of a turn raises, the state persisted for the thread is the state  *)
(* that was persisted before the turn began.                               *)
(***************************************************************************)
C12_GraphNoPersistenceOnFailure ==
    \A c \in Callers :
        (impl = "graph" /\ pc[c] = "failed" /\ error[c] = "ModelCallError") =>
            store[thread[c]] = prevSaved[c]

(***************************************************************************)
(* C13 - maximum-iteration guard (both agents): in one turn the number of  *)
(* model-call / tool-execution cycles carried out never exceeds the        *)
(* configured max_iterations.                                              *)
(***************************************************************************)
RequestsTools(m) == m.tool_calls # << >>
\* The cycles of the current turn whose tool calls have been executed.
Cycles(c) ==
    Len(SelectSeq(Responses(c), RequestsTools)) - (IF pc[c] = "tools" THEN 1 ELSE 0)

C13_MaxIterationGuard ==
    \A c \in Callers : Cycles(c) <= config.max_iterations

(***************************************************************************)
(* C14 - per-session mutual exclusion (both agents): two turns on the same *)
(* thread id are never in progress at the same time, and once two callers  *)
(* have each completed a turn on one thread the history saved for the      *)
(* thread holds both turns' transcripts.                                   *)
(***************************************************************************)
InProgress(c) == pc[c] \in {"model", "tools"}

\* seq holds the messages of tr as one contiguous run.
Contains(seq, tr) ==
    \E k \in 0..(Len(seq) - Len(tr)) : SubSeq(seq, k + 1, k + Len(tr)) = tr

C14_SessionMutualExclusion ==
    \A c1, c2 \in Callers :
        (c1 # c2 /\ thread[c1] = thread[c2]) =>
            /\ ~(InProgress(c1) /\ InProgress(c2))
            /\ (pc[c1] = "done" /\ pc[c2] = "done") =>
                  /\ Contains(Strip(store[thread[c1]].messages), trace[c1])
                  /\ Contains(Strip(store[thread[c1]].messages), trace[c2])

(***************************************************************************)
(* C15 - all results before the model (both agents): every model call of a *)
(* turn after the first is given, for each tool request of the assistant   *)
(* message before it, a tool-result message with that request's id; while  *)
(* the loop is back at the model, no call_tool task of the functional      *)
(* agent is still outstanding.                                             *)
(***************************************************************************)
HasResultFor(msgs, tc) ==
    \E j \in 1..Len(msgs) : IsTool(msgs[j]) /\ msgs[j].tool_call_id = tc.id

AllAnswered(msgs, ai) ==
    \A i \in 1..Len(ai.tool_calls) : HasResultFor(msgs, ai.tool_calls[i])

C15_AllResultsBeforeModel ==
    \A c \in Callers :
        /\ \A k \in 2..Len(modelInputs[c]) :
              AllAnswered(modelInputs[c][k], Responses(c)[k - 1])
        /\ (pc[c] = "model" /\ Responses(c) # << >>) =>
              /\ AllAnswered(messages[c], llm_response[c])
              /\ AllDone(futures[c])

C15_Witness ==
    \E c \in Callers :
        /\ Len(modelInputs[c]) >= 2
        /\ impl = "func"
        /\ Len(Responses(c)[1].tool_calls) = 2

(***************************************************************************)
(* Helpers of the properties on tool invocations                           *)
(***************************************************************************)
\* The remote call of the invocation in hand has ended.
CallEnded == http_outcome # NoOutcome
\* It ended in a 200 response whose parsed body is an object with `result`.
Successful ==
    /\ CallEnded
    /\ http_outcome.kind = "response"
    /\ http_outcome.status_code = 200
    /\ http_outcome.parsable
    /\ IsDict(http_outcome.json)
    /\ HasKey(http_outcome.json, "result")
ResultPayload == Get(http_outcome.json, "result")
HasContent == IsDict(ResultPayload) /\ HasKey(ResultPayload, "content")
ContentField == Get(ResultPayload, "content")
FirstExposesText ==
    /\ IsList(ContentField)
    /\ Len(ContentField.items) > 0
    /\ IsDict(ContentField.items[1])
    /\ HasKey(ContentField.items[1], "text")

C17_ContentStringifiedWhole ==
    (Successful /\ HasContent /\ ~FirstExposesText) =>
        client_return.value = PyStr(ContentField)

(***************************************************************************)
(* C17 amended - in that case the string handed back is the                *)
(* stringification of the first element when `content` is a non-empty      *)
(* list, and of the whole `content` field otherwise (scalar, null, dict,   *)
(* empty list).                                                            *)
(***************************************************************************)
C17_ContentStringified ==
    (Successful /\ HasContent /\ ~FirstExposesText) =>
        client_return.value =
            IF IsList(ContentField) /\ Len(ContentField.items) > 0
            THEN PyStr(ContentField.items[1])
            ELSE PyStr(ContentField)

C17_Witness ==
    /\ mcp_pc = "returned"
    /\ Successful /\ HasContent
    /\ IsList(ContentField)
    /\ Len(ContentField.items) = 2
    /\ ~FirstExposesText
    /\ client_return.value = "{'type': 'image', 'data': 'aGk='}"

(***************************************************************************)
(* C18 - envelope extraction, rules (1) and (3), MCPClient: for a          *)
(* successful response the string handed back is the `text` of the first   *)
(* element when `content` is a non-empty list whose first element has      *)
(* `text`, and the stringified result payload when the result has no       *)
(* `content` field: a plain string result is handed back as it is.         *)
(***************************************************************************)
C18_TextOrWholeResult ==
    (Successful /\ mcp_client = "regulai") =>
        /\ (HasContent /\ FirstExposesText) =>
              client_return.value = Get(ContentField.items[1], "text").s
        /\ ~HasContent =>
              /\ client_return.value = PyStr(ResultPayload)
              /\ ResultPayload.kind = "str" => client_return.value = ResultPayload.s
              /\ ResultPayload = JDict(<< KV("status", JStr("ok")) >>) =>
                    client_return.value = "{'status': 'ok'}"

C18_Witness ==
    /\ mcp_pc = "returned"
    /\ mcp_client = "regulai"
    /\ Successful
    /\ ResultPayload = JStr("Reponse simple")
    /\ client_return.value = "Reponse simple"

(***************************************************************************)
(* C19 - validation precedes the network (both tool clients): a tool       *)
(* invoked with its required field (article_id for get_article, query for  *)
(* search_legifrance, code_name for browse_code) passes validation and     *)
(* posts one request for that tool; invoked without it, the invocation     *)
(* fails validation and no request is posted.                              *)
(***************************************************************************)
C19_Required(name) ==
    CASE name = "get_article" -> "article_id"
      [] name = "search_legifrance" -> "query"
      [] name = "browse_code" -> "code_name"

C19_ValidationBeforeNetwork ==
    mcp_pc # "idle" =>
        IF tool_input.args[C19_Required(tool_input.name)] # Absent
        THEN /\ mcp_pc \in {"awaiting", "returned"}
             /\ Len(http_requests) = 1
             /\ http_requests[1].payload.params.name = tool_input.name
        ELSE /\ mcp_pc = "raised"
             /\ tool_result.raised
             /\ StrPrefix("ValidationError", tool_result.value)
             /\ http_requests = << >>
             /\ client_calls = << >>

C19_Witness ==
    /\ mcp_pc = "raised"
    /\ tool_input.name = "get_article"
    /\ tool_input.args.article_id = Absent
    /\ http_requests = << >>

(***************************************************************************)
(* C20 - search_legifrance forwards its arguments: invoked with a query    *)
(* and max_results it calls the tool client once, with the tool name       *)
(* "search_legifrance" and exactly these two arguments (max_results is 10  *)
(* when the input leaves it out), and hands back what the tool client      *)
(* returned.                                                               *)
(***************************************************************************)
C20_SearchForwardsArguments ==
    (mcp_pc \in {"awaiting", "returned"} /\ tool_input.name = "search_legifrance") =>
        /\ client_calls =
              << [tool_name |-> "search_legifrance",
                  tool_args |-> [query |-> tool_input.args.query,
                                 max_results |->
                                     IF tool_input.args.max_results = AbsentInt THEN 10
                                     ELSE tool_input.args.max_results]] >>
        /\ http_requests[1].payload.params.arguments = client_calls[1].tool_args
        /\ mcp_pc = "returned" => tool_result = client_return

C20_Witness ==
    /\ mcp_pc = "returned"
    /\ mcp_client = "regulai"
    /\ tool_input.name = "search_legifrance"
    /\ tool_input.args.max_results = AbsentInt
    /\ client_calls[1].tool_args.max_results = 10
    /\ tool_result.value = "Article L3141-1"

(***************************************************************************)
(* C21 - liveness of a turn (both agents): a turn in progress in which no  *)
(* model call and no tool call raises, and in which the model ends up      *)
(* answering without tool requests, reaches DONE; at DONE the last         *)
(* assistant message carries no tool request, it is the value returned,    *)
(* and the state saved under the thread ends with it.                      *)
(***************************************************************************)
CallRaised(c) == pc[c] = "failed" /\ error[c] # ""

DoneState(c) ==
    pc[c] = "done" =>
        /\ llm_response[c].tool_calls = << >>
        /\ Last(trace[c]) = llm_response[c]
        /\ result[c] = llm_response[c]
        /\ store[thread[c]].saved
        /\ [Last(store[thread[c]].messages) EXCEPT !.id = 0] = llm_response[c]

C21_TurnLiveness ==
    /\ [](\A c \in Callers : DoneState(c))
    /\ \A c \in Callers : InProgress(c) ~> (pc[c] = "done" \/ CallRaised(c))

C21_Witness ==
    \E c \in Callers :
        /\ pc[c] = "done"
        /\ calls = MaxModelCalls
        /\ Len(Responses(c)) = 2
        /\ HasTool(trace[c])

(***************************************************************************)
(* C22 - session isolation (both agents, any interleaving of two callers): *)
(* a step changes what is saved under a thread id only if it is a step of  *)
(* a turn run under that thread id, and a turn starts from messages that   *)
(* are the new user message or come from what is saved under its own       *)
(* thread id.                                                              *)
(***************************************************************************)
Local(c) ==
    << pc[c], thread[c], messages[c], llm_response[c], futures[c], modelInputs[c],
       trace[c], error[c] >>

C22_StepIsolated ==
    /\ \A t \in Threads :
          store'[t] # store[t] => \E c \in Callers : Local(c)' # Local(c) /\ thread'[c] = t
    /\ \A c \in Callers :
          (~InProgress(c) /\ pc'[c] = "model") =>
              Range(Strip(messages'[c])) \subseteq
                  Range(Strip(store[thread'[c]].messages)) \cup {trace'[c][1]}

C22_SessionIsolation == [][C22_StepIsolated]_vars

C22_Witness ==
    /\ pc[1] = "done" /\ thread[1] = "A"
    /\ InProgress(2) /\ thread[2] = "B"
    /\ store["A"].saved /\ store["B"].saved
    /\ HasTool(trace[1])

\* C23: the Streamlit process is started only after start_mcp_server and then
\* wait_for_mcp_health have returned True; a step that fails is the last step
\* executed, and run then returns 1.
StepAt(i, name, ok) == i \in 1..Len(steps) /\ steps[i] = Step(name, ok)
AfterMcpAndHealth(k) ==
    \E i, j \in 1..Len(steps) :
        /\ i < j /\ j < k
        /\ StepAt(i, "start_mcp_server", TRUE)
        /\ StepAt(j, "wait_for_mcp_health", TRUE)
C23_LauncherOrdering ==
    /\ streamlit_process # "None" =>
          \E k \in 1..Len(steps) :
              StepAt(k, "start_streamlit", TRUE) /\ AfterMcpAndHealth(k)
    /\ \A k \in 1..Len(steps) :
          /\ steps[k].name = "start_streamlit" => AfterMcpAndHealth(k)
          /\ ~steps[k].ok => k = Len(steps)
          /\ ~steps[k].ok /\ launcher_pc = "returned" => exit_code = 1
    /\ (\E k \in 1..Len(steps) : ~steps[k].ok) =>
          launcher_pc \in {"finally", "returned", "exited", "terminated"}

C23_Witness ==
    /\ launcher_pc = "returned"
    /\ exit_code = 1
    /\ StepAt(3, "wait_for_mcp_health", FALSE)
    /\ attempt = MaxHealthAttempts
    /\ streamlit_process = "None"

IsStreamingError(str) == StrPrefix(StreamingError(""), str)
SourceRaised ==
    IF stream_generator.kind = "generator" THEN stream_generator.raises
    ELSE pc[1] = "failed"
C24_Contained ==
    /\ stream_pc # "propagated"
    /\ caught # "" =>
          /\ stream_pc = "ended"
          /\ yielded # << >>
          /\ Last(yielded) = StreamingError(caught)
          /\ Len(SelectSeq(yielded, IsStreamingError)) = 1
    /\ caught = "" => SelectSeq(yielded, IsStreamingError) = << >>
    /\ stream_pc = "ended" /\ SourceRaised => caught # ""
C24_Step ==
    stream_pc = "streaming" =>
        /\ IsPrefix(yielded, yielded')
        /\ caught' # "" =>
              /\ yielded' = Append(yielded, StreamingError(caught'))
              /\ stream_pc' = "ended"
C24_StreamingErrorContained == [] C24_Contained /\ [][C24_Step]_vars

C24_Witness ==
    /\ stream_pc = "ended"
    /\ caught = "Erreur de test"
    /\ yielded = << "test", "chunk", StreamingError("Erreur de test") >>

\* C25: once the stream of a successful turn, wired as handle_user_message
\* wires it, has ended, what was yielded is the content of the turn's final
\* assistant message, once, and nothing else.
C25_AnswerStreamedOnce ==
    /\ stream_generator.kind = "values"
    /\ stream_pc = "ended"
    /\ caught = ""
    /\ pc[1] = "done"
    /\ result[1].content # ""
    => yielded = << result[1].content >>

\* C28: a status indicator is created at most once per tool call id, the
\* active ones are those created and not yet completed, and after a stream of
\* node updates in which every tool request received a result none is active.
EveryRequestAnswered(tr) ==
    \A i \in 1..Len(tr) :
        \A k \in 1..Len(tr[i].tool_calls) :
            \E j \in 1..Len(tr) :
                IsTool(tr[j]) /\ tr[j].tool_call_id = tr[i].tool_calls[k].id
C28_StatusLifecycle ==
    /\ \A i, j \in 1..Len(created) : created[i] = created[j] => i = j
    /\ active_statuses = Range(created) \ Range(completed)
    /\ (/\ stream_generator.kind = "updates"
        /\ stream_pc = "ended"
        /\ caught = ""
        /\ pc[1] = "done"
        /\ EveryRequestAnswered(trace[1]))
       => active_statuses = {}

\* C26: a graph turn aborted in call_model ended in ValueError exactly when
\* the configuration has no model API key set, and with a key set it was the
\* model invocation itself that raised (get_configured_model raised nothing).
KeyConfigured(cfg) == cfg.set # {}
C26_ModelConfigErrors ==
    \A c \in Callers :
        impl = "graph" /\ pc[c] = "failed" =>
            /\ error[c] = "ValueError" <=> ~KeyConfigured(config)
            /\ KeyConfigured(config) => error[c] = "ModelCallError"

\* C29: when the results of a loop iteration have been taken into the
\* history, the history ends with one tool-result message per tool request of
\* the assistant message, in the order of the requests (whatever order the
\* tool calls completed in), in the functional agent and in the graph.
C29_Collected(c) ==
    /\ pc[c] = "model"
    /\ llm_response[c].tool_calls # << >>
C29_ResultOrder ==
    \A c \in Callers :
        C29_Collected(c) =>
            LET tcs  == llm_response[c].tool_calls
                msgs == messages[c]
                n    == Len(tcs)
            IN  /\ Len(msgs) >= n
                /\ \A k \in 1..n :
                      /\ msgs[Len(msgs) - n + k].type = "tool"
                      /\ msgs[Len(msgs) - n + k].tool_call_id = tcs[k].id

C29_Witness ==
    /\ impl = "func"
    /\ C29_Collected(1)
    /\ Len(llm_response[1].tool_calls) = 2
    /\ Len(messages[1]) = 4
    /\ messages[1][3].content # messages[1][4].content

\* C30: for the tool call made and the way the HTTP request ended, the two
\* tool clients post the same payload to <server url>/invoke and hand back
\* the same text once they are given the same server URL; the text differs
\* between them only by the URL named in a connection error.
C30_ClientsEquivalent ==
    mcp_pc = "returned" =>
        LET call    == Last(client_calls)
            regulai == MCPClient_call_tool(ServerUrl("regulai"), call.tool_name, http_outcome)
            agent   == _make_mcp_request(call.tool_name, http_outcome)
        IN  /\ Last(http_requests) =
                  [url |-> ServerUrl(mcp_client) \o "/invoke",
                   payload |-> [method |-> "tools/call",
                                params |-> [name |-> call.tool_name,
                                            arguments |-> call.tool_args]]]
            /\ MCPClient_call_tool(ServerUrl("agent"), call.tool_name, http_outcome) = agent
            /\ http_outcome.kind # "RequestError" => regulai = agent
            /\ client_return \in {regulai, agent}

C30_Witness ==
    /\ mcp_pc = "returned"
    /\ mcp_client = "regulai"
    /\ http_outcome.kind = "RequestError"
    /\ client_return # _make_mcp_request(Last(client_calls).tool_name, http_outcome)

====
